---- MODULE Spec2Model ----
(***************************************************************************)
(* A model of legion_prof_rs/src/state.rs: the profile state builder.      *)
(*                                                                         *)
(* The module holds several specifications over one set of variables:      *)
(*   SpecAlloc   ProfUIDAllocator and State::complete_parse                *)
(*   SpecLevels  level assignment and stacking of one container            *)
(*   SpecIngest  process_records over a set of records in any order        *)
(* Every specification leaves the variables of the other parts at their    *)
(* initial values.                                                         *)
(***************************************************************************)
EXTENDS Integers, Sequences, FiniteSets, TLC

VARIABLES
    prof_uid_allocator, \* State.prof_uid_allocator: [next_prof_uid, fevents, used_fevents, reverse_lookup]
    has_prof_data,      \* State.has_prof_data
    panic,              \* "" while running, else the panic site that aborted the process
    call,               \* the last call made on the allocator: [op, arg, val]
    issued,             \* history: the <<fevent, uid>> pairs create_reference/create_object returned
    fresh,              \* history: the uids create_fresh returned
    parses,             \* history: how many times complete_parse ran
    container,          \* one Proc, Mem or Chan: [type, c]
    passes,             \* history: the passes run on the container, in order
    first_run,          \* history: the container after its first sort and stack
    state,              \* State: [procs, mems, chans, insts, tasks, event_graph, ...]
    locals,             \* the tables local to process_records: [insts, profs, copies]
    pending             \* the records process_records has not been handed yet

levelVars == <<container, passes, first_run>>

ingestVars == <<state, locals, pending>>

vars == <<prof_uid_allocator, has_prof_data, panic, call, issued, fresh, parses,
          container, passes, first_run, state, locals, pending>>

(***************************************************************************)
(* Bounds of the model.                                                    *)
(***************************************************************************)
MaxUID == 4        \* the allocator stops handing out uids beyond this one
NumFevents == 3    \* fevents are 1..NumFevents
MaxParses == 2     \* complete_parse is called at most this often

Fevents == 1..NumFevents

\* Option<T>: None is the empty sequence, Some(x) the sequence of x alone.
None == << >>

Some(x) == <<x>>

Unwrap(o) == o[1]

(***************************************************************************)
(* BTreeMap helpers: a map is a function whose DOMAIN is its key set.      *)
(***************************************************************************)
EmptyMap == [x \in {} |-> 0]

MapInsert(m, k, v) == [x \in DOMAIN m \cup {k} |-> IF x = k THEN v ELSE m[x]]

MapValues(m) == {m[k] : k \in DOMAIN m}

(***************************************************************************)
(* ProfUIDAllocator                                                        *)
(***************************************************************************)
NewAllocator ==
    [next_prof_uid |-> 0, fevents |-> EmptyMap, used_fevents |-> {},
     reverse_lookup |-> EmptyMap]

\* fn create_fresh: pre-increment, then return.
create_fresh(a) ==
    [alloc |-> [a EXCEPT !.next_prof_uid = @ + 1], uid |-> a.next_prof_uid + 1]

\* Mutant: a reference to a new fevent reuses the current uid (no increment).
create_reference_noinc(a, fevent) ==
    IF fevent \in DOMAIN a.fevents
    THEN [alloc |-> a, uid |-> a.fevents[fevent]]
    ELSE [alloc |-> [a EXCEPT !.fevents = MapInsert(@, fevent, a.next_prof_uid)],
          uid |-> a.next_prof_uid]

\* fn create_reference: fevents.entry(fevent).or_insert_with(next uid).
create_reference(a, fevent) ==
    IF fevent \in DOMAIN a.fevents
    THEN [alloc |-> a, uid |-> a.fevents[fevent]]
    ELSE [alloc |-> [a EXCEPT !.next_prof_uid = @ + 1,
                              !.fevents = MapInsert(@, fevent, a.next_prof_uid + 1)],
          uid |-> a.next_prof_uid + 1]

\* Mutant: the defining mention is not checked to be the only one.
create_object_nocheck(a, fevent) ==
    LET r == create_reference([a EXCEPT !.used_fevents = @ \cup {fevent}], fevent)
    IN  [panicked |-> FALSE, alloc |-> r.alloc, uid |-> r.uid]

\* fn create_object: assert!(!used_fevents.contains(fevent)), then as a reference.
create_object(a, fevent) ==
    IF fevent \in a.used_fevents
    THEN [panicked |-> TRUE, alloc |-> a, uid |-> 0]
    ELSE LET r == create_reference([a EXCEPT !.used_fevents = @ \cup {fevent}], fevent)
         IN  [panicked |-> FALSE, alloc |-> r.alloc, uid |-> r.uid]

\* The reverse_lookup after inserting every (prof_uid, event) of fevents.
InvertInto(rev, fev) ==
    [u \in DOMAIN rev \cup MapValues(fev) |->
        IF u \in MapValues(fev)
        THEN CHOOSE e \in DOMAIN fev : fev[e] = u
        ELSE rev[u]]

\* Mutant: the forward map is kept after the inversion.
complete_parse_noclear(a) ==
    [a EXCEPT !.reverse_lookup = InvertInto(@, a.fevents), !.used_fevents = {}]

\* Mutant: the reverse map is rebuilt from the forward map alone.
complete_parse_rebuild(a) ==
    [a EXCEPT !.reverse_lookup = InvertInto(EmptyMap, a.fevents),
              !.fevents = EmptyMap, !.used_fevents = {}]

\* fn ProfUIDAllocator::complete_parse
alloc_complete_parse(a) ==
    [a EXCEPT !.reverse_lookup = InvertInto(@, a.fevents),
              !.fevents = EmptyMap, !.used_fevents = {}]

\* fn find_fevent: reverse_lookup.get(prof_uid), which the code unwraps (None panics).
find_fevent(a, prof_uid) ==
    IF prof_uid \in DOMAIN a.reverse_lookup THEN Some(a.reverse_lookup[prof_uid]) ELSE None

(***************************************************************************)
(* Timestamps, time ranges and time points                                 *)
(***************************************************************************)
\* Timestamp::MAX (NonMaxU64::MAX), narrowed to the integers TLC computes with.
TimestampMAX == 2147483646

\* TimeRange::new_full / new_message: the panic site of a violated assert, or "".
time_range_check(create, ready, start, stop) ==
    IF create <= ready /\ ready <= start /\ start <= stop
    THEN ""
    ELSE "TimeRange::new_full: assert"

\* TimeRange::new_full
new_full(create, ready, start, stop) ==
    [spawn |-> None, create |-> Some(create), ready |-> Some(ready),
     start |-> Some(start), stop |-> Some(stop)]

\* TimeRange::new_call
new_call(start, stop) ==
    [spawn |-> None, create |-> None, ready |-> None,
     start |-> Some(start), stop |-> Some(stop)]

\* TimeRange::new_empty
new_empty == [spawn |-> None, create |-> None, ready |-> None, start |-> None, stop |-> None]

\* TimePoint::new
TimePoint(time, entry, first, secondary_sort_key) ==
    [time |-> time, entry |-> entry, first |-> first,
     secondary_sort_key |-> secondary_sort_key]

\* A key that orders the stop points of an instant before its start points.
time_key_stops_first(p) == <<p.time, IF p.first THEN 1 ELSE 0, p.secondary_sort_key>>

\* TimePoint::time_key
time_key(p) ==
    <<p.time, IF p.first THEN 0 ELSE 1, p.secondary_sort_key>>

\* The derived Ord of the key tuple (u64, u8, Secondary).
KeyLess(a, b) ==
    \/ a[1] < b[1]
    \/ a[1] = b[1] /\ a[2] < b[2]
    \/ a[1] = b[1] /\ a[2] = b[2] /\ a[3] < b[3]

\* slice::sort_by_key is a stable sort: equal keys keep their order.
StableSort(s, Less(_, _)) ==
    LET n == Len(s)
        Place(rank) == [r \in 1..n |-> s[CHOOSE i \in 1..n : rank[i] = r]]
    IN  Place([i \in 1..n |->
                  Cardinality({j \in 1..n :
                      \/ Less(s[j], s[i])
                      \/ ~Less(s[i], s[j]) /\ j < i}) + 1])

\* points.sort_by_key(|a| a.time_key())
sort_by_time_key(s) ==
    StableSort(s, LAMBDA a, b : KeyLess(time_key(a), time_key(b)))

\* The keys of a BTreeMap in iteration (ascending) order.
RECURSIVE KeysInOrder(_)
KeysInOrder(S) ==
    IF S = {} THEN << >>
    ELSE LET m == CHOOSE x \in S : \A y \in S : x <= y
         IN  <<m>> \o KeysInOrder(S \ {m})

RECURSIVE Flatten(_)
Flatten(ss) == IF ss = << >> THEN << >> ELSE Head(ss) \o Flatten(Tail(ss))

\* Vec::retain(|p| p.first) / iter().filter(|p| p.first)
OnlyFirst(s) == SelectSeq(s, LAMBDA p : p.first)

(***************************************************************************)
(* The free-level sweep shared by Proc, Mem and Chan                       *)
(***************************************************************************)
\* Mutant: the heap hands out its largest level (the Reverse wrapper forgotten).
heap_pop_max(h) ==
    LET i == CHOOSE i \in 1..Len(h) : \A j \in 1..Len(h) : h[i] >= h[j]
    IN  [level |-> h[i], rest |-> SubSeq(h, 1, i - 1) \o SubSeq(h, i + 1, Len(h))]

\* Mutant: the popped level stays in the heap.
heap_pop_keep(h) ==
    LET i == CHOOSE i \in 1..Len(h) : \A j \in 1..Len(h) : h[i] <= h[j]
    IN  [level |-> h[i], rest |-> h]

\* BinaryHeap<Reverse<u32>>::pop on a non-empty heap: the smallest level leaves.
heap_pop(h) ==
    LET i == CHOOSE i \in 1..Len(h) : \A j \in 1..Len(h) : h[i] <= h[j]
    IN  [level |-> h[i], rest |-> SubSeq(h, 1, i - 1) \o SubSeq(h, i + 1, Len(h))]

\* Mutant: the level counter is handed out without being advanced.
postincrement_stuck(max_levels) == [level |-> max_levels, max_levels |-> max_levels]

\* max_levels.postincrement() (Proc, Chan): the old value is the new level.
postincrement(max_levels) == [level |-> max_levels, max_levels |-> max_levels + 1]

\* self.max_live_insts += 1; self.max_live_insts (Mem): the new value is the level.
preincrement(max_levels) == [level |-> max_levels + 1, max_levels |-> max_levels + 1]

\* Mutant: set_level without its assertion.
set_level_unchecked(entry) == TRUE

\* Base::set_level: assert!(self.level.is_none())
set_level_ok(entry) == entry.level = None

\* The loop over the sorted points. st = [entries, free_levels, max_levels, panic];
\* pre tells Mem's pre-increment from the post-increment of Proc and Chan.
RECURSIVE sweep(_, _, _, _)
sweep(points, i, pre, st) ==
    IF i > Len(points) \/ st.panic # "" THEN st
    ELSE
      LET point == points[i]
          e == st.entries[point.entry]
      IN  IF point.first
          THEN LET popped == heap_pop(st.free_levels)
                   fresh_level == IF pre THEN preincrement(st.max_levels)
                                  ELSE postincrement(st.max_levels)
                   level == IF st.free_levels # << >> THEN popped.level ELSE fresh_level.level
               IN  IF ~set_level_ok(e)
                   THEN [st EXCEPT !.panic = "Base::set_level: level already set"]
                   ELSE sweep(points, i + 1, pre,
                          [st EXCEPT
                             !.free_levels = IF st.free_levels # << >> THEN popped.rest ELSE @,
                             !.max_levels = IF st.free_levels # << >> THEN @ ELSE fresh_level.max_levels,
                             !.entries[point.entry].level = Some(level)])
          ELSE IF e.level = None
               THEN [st EXCEPT !.panic = "level.unwrap(): None"]
               ELSE sweep(points, i + 1, pre,
                          [st EXCEPT !.free_levels = Append(@, Unwrap(e.level))])

\* Container::stack: max_levels + 1 buckets, each point pushed on its entry's level.
stack(entries, time_points, max_levels) ==
    [l \in 1..(max_levels + 1) |->
        SelectSeq(time_points, LAMBDA p : Unwrap(entries[p.entry].level) = l - 1)]

(***************************************************************************)
(* Mem                                                                     *)
(***************************************************************************)
\* Mem::new
NewMem(kind, capacity) ==
    [kind |-> kind, capacity |-> capacity, insts |-> EmptyMap,
     time_points |-> << >>, time_points_stacked |-> << >>, util_time_points |-> << >>,
     max_live_insts |-> 0]

\* Inst::new
Inst_new ==
    [level |-> None, mem_id |-> None, size |-> None, creator |-> None,
     time_range |-> new_empty]

\* Inst::set_start_stop: start aliases ready, stop is destroy; nothing is asserted.
set_start_stop(inst, create, ready, destroy) ==
    [inst EXCEPT !.time_range.create = Some(create), !.time_range.ready = Some(ready),
                 !.time_range.start = Some(ready), !.time_range.stop = Some(destroy)]

\* Inst::set_allocated
set_allocated(inst, allocated) == [inst EXCEPT !.time_range.spawn = Some(allocated)]

\* An instance as Record::InstTimelineInfo leaves it.
NewInst(create, ready, destroy, size) ==
    [set_start_stop(Inst_new, create, ready, destroy) EXCEPT !.size = Some(size)]

\* Mem::add_inst
add_inst(mem, prof_uid, inst) == [mem EXCEPT !.insts = MapInsert(@, prof_uid, inst)]

RECURSIVE dynamic_size_loop(_, _, _, _, _)
dynamic_size_loop(insts, points, i, size, max_size) ==
    IF i > Len(points) THEN max_size
    ELSE LET sz == Unwrap(insts[points[i].entry].size)
             size2 == IF points[i].first THEN size + sz ELSE size - sz
         IN  dynamic_size_loop(insts, points, i + 1, size2,
                               IF size2 > max_size THEN size2 ELSE max_size)

\* Mem::calculate_dynamic_memory_size
calculate_dynamic_memory_size(insts, points) ==
    LET m == dynamic_size_loop(insts, points, 1, 0, 0)
    IN  IF m > 1 THEN m ELSE 1

\* The two points Mem::sort_time_range pushes per instance: ready and stop.
mem_points(insts) ==
    Flatten([k \in 1..Cardinality(DOMAIN insts) |->
        LET uid == KeysInOrder(DOMAIN insts)[k]
            t == insts[uid].time_range
        IN  <<TimePoint(Unwrap(t.ready), uid, TRUE, TimestampMAX - Unwrap(t.stop)),
              TimePoint(Unwrap(t.stop), uid, FALSE, 0)>>])

\* Mem::sort_time_range: [c |-> the memory afterwards, panic |-> the panic site or ""]
mem_sort_time_range(mem) ==
    LET Result(time_points, st) ==
            IF st.panic # "" THEN [c |-> mem, panic |-> st.panic]
            ELSE [panic |-> "",
                  c |-> [mem EXCEPT
                     !.insts = st.entries,
                     !.max_live_insts = st.max_levels,
                     !.time_points = OnlyFirst(time_points),
                     !.util_time_points = time_points,
                     !.capacity = IF mem.capacity = 0 \/ mem.kind = "GPUDynamic"
                                  THEN calculate_dynamic_memory_size(st.entries,
                                                                     OnlyFirst(time_points))
                                  ELSE @]]
        Sweep(time_points) ==
            Result(time_points,
                   sweep(time_points, 1, TRUE,
                         [entries |-> mem.insts, free_levels |-> << >>,
                          max_levels |-> mem.max_live_insts, panic |-> ""]))
    IN  Sweep(sort_by_time_key(mem_points(mem.insts)))

\* Mem::stack_time_points
mem_stack_time_points(mem) ==
    [mem EXCEPT !.time_points = << >>,
                !.time_points_stacked = stack(mem.insts, mem.time_points, mem.max_live_insts)]

(***************************************************************************)
(* Chan                                                                    *)
(***************************************************************************)
\* Chan::new
NewChan ==
    [entries |-> EmptyMap, time_points |-> << >>, time_points_stacked |-> << >>,
     util_time_points |-> << >>, max_levels |-> 0]

\* A channel entry (Copy, Fill or DepPart): its Base and TimeRange.
NewChanEntry(kind, time_range) == [kind |-> kind, level |-> None, time_range |-> time_range]

\* Chan::add_copy / add_fill / add_deppart: entries.entry(prof_uid).or_insert(..)
add_chan_entry(chan, prof_uid, entry) ==
    IF prof_uid \in DOMAIN chan.entries THEN chan
    ELSE [chan EXCEPT !.entries = MapInsert(@, prof_uid, entry)]

\* The two points Chan::sort_time_range pushes per entry: start and stop.
chan_points(entries) ==
    Flatten([k \in 1..Cardinality(DOMAIN entries) |->
        LET uid == KeysInOrder(DOMAIN entries)[k]
            t == entries[uid].time_range
        IN  <<TimePoint(Unwrap(t.start), uid, TRUE, TimestampMAX - Unwrap(t.stop)),
              TimePoint(Unwrap(t.stop), uid, FALSE, 0)>>])

\* Chan::sort_time_range
chan_sort_time_range(chan) ==
    LET Result(points, st) ==
            IF st.panic # "" THEN [c |-> chan, panic |-> st.panic]
            ELSE [panic |-> "",
                  c |-> [chan EXCEPT
                     !.entries = st.entries,
                     !.max_levels = st.max_levels,
                     !.time_points = OnlyFirst(points),
                     !.util_time_points = points]]
        Sweep(points) ==
            Result(points,
                   sweep(points, 1, FALSE,
                         [entries |-> chan.entries, free_levels |-> << >>,
                          max_levels |-> chan.max_levels, panic |-> ""]))
    IN  Sweep(sort_by_time_key(chan_points(chan.entries)))

\* Chan::stack_time_points
chan_stack_time_points(chan) ==
    [chan EXCEPT !.time_points = << >>,
                 !.time_points_stacked = stack(chan.entries, chan.time_points, chan.max_levels)]

(***************************************************************************)
(* Proc                                                                    *)
(***************************************************************************)
\* Proc::new with the kind a ProcDesc record sets.
NewProc(kind) ==
    [kind |-> kind, entries |-> EmptyMap, tasks |-> EmptyMap, meta_tasks |-> EmptyMap,
     message_tasks |-> {}, event_waits |-> EmptyMap,
     max_levels |-> 0, time_points |-> << >>, time_points_stacked |-> << >>,
     util_time_points |-> << >>,
     max_levels_device |-> 0, time_points_device |-> << >>,
     time_points_stacked_device |-> << >>, util_time_points_device |-> << >>]

\* ProcEntry::new
NewProcEntry(op, initiation_op, kind, time_range, creator) ==
    [kind |-> kind, level |-> None, time_range |-> time_range, creator |-> creator,
     op_id |-> op, initiation_op |-> initiation_op, waiters |-> << >>]

\* Proc::create_proc_entry: index a task by its op, or_insert the entry.
create_proc_entry(proc, prof_uid, entry) ==
    [proc EXCEPT
       !.tasks = IF entry.kind = "Task" THEN MapInsert(@, Unwrap(entry.op_id), prof_uid) ELSE @,
       !.entries = IF prof_uid \in DOMAIN @ THEN @ ELSE MapInsert(@, prof_uid, entry)]

\* Proc::record_event_wait
record_event_wait(proc, task_uid, event, backtrace) ==
    [proc EXCEPT !.event_waits =
        MapInsert(@, task_uid,
                  MapInsert(IF task_uid \in DOMAIN @ THEN @[task_uid] ELSE EmptyMap,
                            event, backtrace))]

\* WaitInterval::from_event
from_event(start, ready, end, event, backtrace) ==
    [start |-> start, ready |-> ready, end |-> end,
     callee |-> None, event |-> Some(event), backtrace |-> backtrace]

\* from_caller with the wait ready when the call starts.
from_caller_ready_at_start(start, end, callee) ==
    [start |-> start, ready |-> start, end |-> end,
     callee |-> Some(callee), event |-> None, backtrace |-> None]

\* WaitInterval::from_caller
from_caller(start, end, callee) ==
    [start |-> start, ready |-> end, end |-> end,
     callee |-> Some(callee), event |-> None, backtrace |-> None]

IsCall(kind) == kind \in {"MapperCall", "RuntimeCall", "ApplicationCall"}

MapRemove(m, k) == [x \in DOMAIN m \ {k} |-> m[x]]

\* The wait intervals left in the order they were pushed.
sort_waits_skipped(ws) == ws

\* wait_intervals.sort_by_key(|w| w.start)
sort_waits(ws) == StableSort(ws, LAMBDA a, b : a.start < b.start)

\* The first loop of sort_calls_and_waits: the (uid, start, stop) of every call
\* entry, in uid order.
call_list(entries) ==
    LET uids == KeysInOrder({u \in DOMAIN entries : IsCall(entries[u].kind)})
    IN  [k \in 1..Len(uids) |->
            [uid |-> uids[k],
             start |-> Unwrap(entries[uids[k]].time_range.start),
             stop |-> Unwrap(entries[uids[k]].time_range.stop)]]

\* The position of the first call after position from that satisfies Hit, or 0.
FirstHit(calls, from, Hit(_)) ==
    IF \E k \in (from + 1)..Len(calls) : Hit(calls[k])
    THEN CHOOSE k \in (from + 1)..Len(calls) :
            Hit(calls[k]) /\ \A j \in (from + 1)..(k - 1) : ~Hit(calls[j])
    ELSE 0

\* The position of the last call that contains the wait, or 0.
largest_containing(calls, wait) ==
    IF \E k \in 1..Len(calls) : calls[k].start <= wait.start /\ wait.end <= calls[k].stop
    THEN CHOOSE k \in 1..Len(calls) :
            /\ calls[k].start <= wait.start /\ wait.end <= calls[k].stop
            /\ \A j \in (k + 1)..Len(calls) :
                  ~(calls[j].start <= wait.start /\ wait.end <= calls[j].stop)
    ELSE 0

\* "Find the smallest containing call": the position in calls, which are
\* sorted by size, of the first one that contains the wait, or 0.
smallest_containing(calls, wait) ==
    FirstHit(calls, 0, LAMBDA c : c.start <= wait.start /\ wait.end <= c.stop)

\* The loop over a task's wait intervals: a wait moves into the smallest call
\* that contains it. st = [entries, task, event_waits, to_remove, panic].
RECURSIVE push_waits(_, _, _)
push_waits(calls, idx, st) ==
    IF idx > Len(st.task.waiters) \/ st.panic # "" THEN st
    ELSE
      LET wait == st.task.waiters[idx]
          has_bt == wait.event # None /\ Unwrap(wait.event) \in DOMAIN st.event_waits
          backtrace == IF has_bt THEN Some(st.event_waits[Unwrap(wait.event)]) ELSE None
          ew == IF has_bt THEN MapRemove(st.event_waits, Unwrap(wait.event))
                ELSE st.event_waits
          k == smallest_containing(calls, wait)
          scanned == IF k = 0 THEN 1..Len(calls) ELSE 1..(k - 1)
      IN  IF \E j \in scanned : ~(wait.end <= calls[j].start \/ calls[j].stop <= wait.start)
          THEN [st EXCEPT !.panic = "sort_calls_and_waits: wait partially overlaps a call"]
          ELSE IF k = 0
          THEN push_waits(calls, idx + 1,
                 [st EXCEPT !.event_waits = ew,
                            !.task.waiters[idx].backtrace = backtrace])
          ELSE IF wait.event = None
          THEN [st EXCEPT !.panic = "sort_calls_and_waits: wait.event.unwrap()"]
          ELSE IF ~(wait.start <= wait.ready /\ wait.ready <= wait.end)
          THEN [st EXCEPT !.panic = "WaitInterval::from_event: assert"]
          ELSE push_waits(calls, idx + 1,
                 [st EXCEPT
                    !.event_waits = ew,
                    !.entries[calls[k].uid].waiters =
                        Append(@, from_event(wait.start, wait.ready, wait.end,
                                             Unwrap(wait.event), backtrace)),
                    !.to_remove = @ \cup {idx},
                    !.task.waiters[idx].backtrace = None])

\* The test on two calls with the start of the second read for its stop.
calls_apart_misread(this_call, next) ==
    this_call.stop <= next.start \/ next.start <= this_call.stop

\* "Calls should not be partially overlapping with eachother": what the assert
\* on a call and a later call that does not contain it tests.
calls_apart(this_call, next) ==
    this_call.stop <= next.start \/ next.stop <= this_call.start

\* The loop over a task's calls, smallest first: each call becomes a wait of the
\* next larger call that dominates it, or of the task. st = [entries, task, panic].
RECURSIVE link_calls(_, _, _, _)
link_calls(task_uid, calls, idx1, st) ==
    IF idx1 > Len(calls) \/ st.panic # "" THEN st
    ELSE
      LET this_call == calls[idx1]
          Dominates(n) == n.start <= this_call.start /\ this_call.stop <= n.stop
          k == FirstHit(calls, idx1, Dominates)
          scanned == IF k = 0 THEN (idx1 + 1)..Len(calls) ELSE (idx1 + 1)..(k - 1)
          wait == from_caller(this_call.start, this_call.stop, this_call.uid)
          op == IF st.task.kind = "Task" THEN st.task.op_id ELSE st.task.initiation_op
      IN  IF \E j \in scanned : ~calls_apart(this_call, calls[j])
          THEN [st EXCEPT !.panic = "sort_calls_and_waits: calls partially overlap"]
          ELSE IF this_call.start > this_call.stop
          THEN [st EXCEPT !.panic = "WaitInterval::from_caller: assert"]
          ELSE IF st.task.kind \notin {"Task", "MetaTask", "ProfTask"}
          THEN [st EXCEPT !.panic = "bad processor entry kind"]
          ELSE IF k = 0
          THEN link_calls(task_uid, calls, idx1 + 1,
                 [st EXCEPT
                    !.task.waiters = sort_waits(Append(@, wait)),
                    !.entries[this_call.uid].initiation_op = op,
                    !.entries[this_call.uid].creator = Some(task_uid)])
          ELSE link_calls(task_uid, calls, idx1 + 1,
                 [st EXCEPT
                    !.entries[calls[k].uid].waiters = sort_waits(Append(@, wait)),
                    !.entries[this_call.uid].initiation_op = op,
                    !.entries[this_call.uid].creator = Some(calls[k].uid)])

\* The moved waits are left in the task's list.
remove_indices_skipped(ws, to_remove) == ws

\* Vec::remove of every index in to_remove.
remove_indices(ws, to_remove) ==
    LET kept == {i \in 1..Len(ws) : i \notin to_remove}
    IN  [r \in 1..Cardinality(kept) |->
            ws[CHOOSE i \in kept : Cardinality({j \in kept : j < i}) = r - 1]]

\* One iteration of the loop over subcalls: the calls created by task_uid.
\* st = [entries, event_waits, panic].
reconcile_task(all_calls, task_uid, st) ==
    LET Linked(l) ==
            IF l.panic # "" THEN [st EXCEPT !.panic = l.panic]
            ELSE [entries |-> MapInsert(l.entries, task_uid, l.task),
                  event_waits |-> MapRemove(st.event_waits, task_uid),
                  panic |-> ""]
        Pushed(calls, w) ==
            IF w.panic # "" THEN [st EXCEPT !.panic = w.panic]
            ELSE Linked(link_calls(task_uid, calls, 1,
                     [entries |-> w.entries,
                      task |-> [w.task EXCEPT !.waiters = remove_indices(@, w.to_remove)],
                      panic |-> ""]))
        Sorted(calls) ==
            Pushed(calls,
                   push_waits(calls, 1,
                       [entries |-> MapRemove(st.entries, task_uid),
                        task |-> st.entries[task_uid],
                        event_waits |-> IF task_uid \in DOMAIN st.event_waits
                                        THEN st.event_waits[task_uid] ELSE EmptyMap,
                        to_remove |-> {}, panic |-> ""]))
    IN  IF task_uid \notin DOMAIN st.entries
        THEN [st EXCEPT !.panic = "sort_calls_and_waits: entries.remove(task_uid).unwrap()"]
        ELSE Sorted(StableSort(
                 SelectSeq(all_calls, LAMBDA c : st.entries[c.uid].creator = Some(task_uid)),
                 LAMBDA a, b : a.stop - a.start < b.stop - b.start))

RECURSIVE reconcile_tasks(_, _, _, _)
reconcile_tasks(all_calls, creators, i, st) ==
    IF i > Len(creators) \/ st.panic # "" THEN st
    ELSE reconcile_tasks(all_calls, creators, i + 1,
                         reconcile_task(all_calls, creators[i], st))

\* waiters.remove(&event) for each wait of the task in turn: a backtrace goes to
\* the first wait on its event, later waits on the same event get None.
RECURSIVE attach_backtraces(_, _, _)
attach_backtraces(waits, i, ew) ==
    IF i > Len(waits) THEN waits
    ELSE LET wait == waits[i]
         IN  IF wait.event = None THEN attach_backtraces(waits, i + 1, ew)
             ELSE IF Unwrap(wait.event) \in DOMAIN ew
             THEN attach_backtraces([waits EXCEPT ![i].backtrace = Some(ew[Unwrap(wait.event)])],
                                    i + 1, MapRemove(ew, Unwrap(wait.event)))
             ELSE attach_backtraces([waits EXCEPT ![i].backtrace = None], i + 1, ew)

\* The last loop of sort_calls_and_waits, over the event waits that are left.
RECURSIVE leftover_event_waits(_, _, _)
leftover_event_waits(uids, i, st) ==
    IF i > Len(uids) \/ st.panic # "" THEN st
    ELSE IF uids[i] \notin DOMAIN st.entries
    THEN [st EXCEPT !.panic = "sort_calls_and_waits: entries.get_mut(task_uid).unwrap()"]
    ELSE leftover_event_waits(uids, i + 1,
           [st EXCEPT !.entries[uids[i]].waiters =
               attach_backtraces(@, 1, st.event_waits[uids[i]])])

\* Proc::sort_calls_and_waits: [c |-> the processor afterwards, panic |-> site or ""]
sort_calls_and_waits(proc) ==
    LET call_uids == {u \in DOMAIN proc.entries : IsCall(proc.entries[u].kind)}
        Left(f) ==
            IF f.panic # "" THEN [c |-> proc, panic |-> f.panic]
            ELSE [c |-> [proc EXCEPT !.entries = f.entries, !.event_waits = EmptyMap],
                  panic |-> ""]
        Reconciled(r) ==
            IF r.panic # "" THEN [c |-> proc, panic |-> r.panic]
            ELSE Left(leftover_event_waits(KeysInOrder(DOMAIN r.event_waits), 1, r))
        Listed(all_calls) ==
            IF \E c \in DOMAIN all_calls : all_calls[c].start > all_calls[c].stop
            THEN [c |-> proc, panic |-> "sort_calls_and_waits: assert call_start <= call_stop"]
            ELSE Reconciled(reconcile_tasks(all_calls,
                     KeysInOrder({Unwrap(proc.entries[u].creator) : u \in call_uids}), 1,
                     [entries |-> proc.entries, event_waits |-> proc.event_waits,
                      panic |-> ""]))
    IN  IF \E u \in call_uids : proc.entries[u].creator = None
        THEN [c |-> proc, panic |-> "sort_calls_and_waits: creator.unwrap()"]
        ELSE Listed(call_list(proc.entries))

\* Proc::sort_time_range's add(): the start and the stop point of an entry.
add(time, prof_uid) ==
    <<TimePoint(Unwrap(time.start), prof_uid, TRUE, TimestampMAX - Unwrap(time.stop)),
      TimePoint(Unwrap(time.stop), prof_uid, FALSE, 0)>>

\* Proc::sort_time_range's add_waiters(): a wait stops, its end restarts.
add_waiters(waiters, prof_uid) ==
    Flatten([i \in 1..Len(waiters) |->
        <<TimePoint(waiters[i].start, prof_uid, FALSE, TimestampMAX - waiters[i].end),
          TimePoint(waiters[i].end, prof_uid, TRUE, 0)>>])

\* On a GPU the GPUKernel entries form the device partition, all else the host.
OnDevice(proc_kind, entry) == proc_kind = Some("GPU") /\ entry.kind = "GPUKernel"

\* The points add() pushes for the entries us, in order.
proc_points(entries, us) ==
    Flatten([k \in 1..Len(us) |-> add(entries[us[k]].time_range, us[k])])

\* The utilization points add() and add_waiters() push for the entries us.
proc_util_points(entries, us) ==
    Flatten([k \in 1..Len(us) |->
        add(entries[us[k]].time_range, us[k]) \o add_waiters(entries[us[k]].waiters, us[k])])

\* sort_and_stack of Proc::sort_time_range: the sweep starts from max_levels 0.
sort_and_stack(entries, points) ==
    sweep(points, 1, FALSE,
          [entries |-> entries, free_levels |-> << >>, max_levels |-> 0, panic |-> ""])

\* Proc::sort_time_range after sort_calls_and_waits returned.
sort_time_range_points(proc0, proc) ==
    LET Result(host, device, points, points_device, h, d) ==
            IF h.panic # "" THEN [c |-> proc0, panic |-> h.panic]
            ELSE IF d.panic # "" THEN [c |-> proc0, panic |-> d.panic]
            ELSE [panic |-> "",
                  c |-> [proc EXCEPT
                     !.entries = d.entries,
                     !.max_levels = h.max_levels,
                     !.time_points = OnlyFirst(points),
                     !.util_time_points = sort_by_time_key(proc_util_points(proc.entries, host)),
                     !.max_levels_device = d.max_levels,
                     !.time_points_device = OnlyFirst(points_device),
                     !.util_time_points_device =
                         sort_by_time_key(proc_util_points(proc.entries, device))]]
        Device(host, device, points, points_device, h) ==
            Result(host, device, points, points_device, h,
                   sort_and_stack(h.entries, points_device))
        Host(host, device, points, points_device) ==
            Device(host, device, points, points_device,
                   sort_and_stack(proc.entries, points))
        Split(host, device) ==
            Host(host, device,
                 sort_by_time_key(proc_points(proc.entries, host)),
                 sort_by_time_key(proc_points(proc.entries, device)))
        Keys(uids) ==
            Split(SelectSeq(uids, LAMBDA u : ~OnDevice(proc.kind, proc.entries[u])),
                  SelectSeq(uids, LAMBDA u : OnDevice(proc.kind, proc.entries[u])))
    IN  IF proc.kind = None
        THEN [c |-> proc0, panic |-> "Proc::sort_time_range: kind.unwrap()"]
        ELSE IF \E u \in DOMAIN proc.entries :
                  proc.entries[u].time_range.start = None \/ proc.entries[u].time_range.stop = None
        THEN [c |-> proc0, panic |-> "Proc::sort_time_range: time.start.unwrap()"]
        ELSE Keys(KeysInOrder(DOMAIN proc.entries))

\* Proc::sort_time_range: [c |-> the processor afterwards, panic |-> site or ""]
proc_sort_time_range(proc0) ==
    LET Sorted(scw) ==
            IF scw.panic # "" THEN [c |-> proc0, panic |-> scw.panic]
            ELSE sort_time_range_points(proc0, scw.c)
    IN  Sorted(sort_calls_and_waits(proc0))

\* Proc::stack_time_points
proc_stack_time_points(proc) ==
    [proc EXCEPT
       !.time_points = << >>,
       !.time_points_stacked = stack(proc.entries, proc.time_points, proc.max_levels),
       !.time_points_device = << >>,
       !.time_points_stacked_device =
           stack(proc.entries, proc.time_points_device, proc.max_levels_device)]

(***************************************************************************)
(* State and process_record. A bundle b carries what a handler works on:   *)
(* [alloc, state, insts, profs, panic].                                    *)
(***************************************************************************)
\* State::default, as far as the records below reach into it.
NewState ==
    [procs |-> EmptyMap, mems |-> EmptyMap, insts |-> EmptyMap, tasks |-> EmptyMap,
     prof_uid_proc |-> EmptyMap, op_prof_uid |-> EmptyMap, last_time |-> 0,
     event_graph |-> [nodes |-> << >>, edges |-> << >>], event_lookup |-> EmptyMap,
     chans |-> EmptyMap, prof_uid_chan |-> EmptyMap,
     mapper_call_kinds |-> {}, runtime_call_kinds |-> {}, provenances |-> {},
     meta_variants |-> EmptyMap, meta_tasks |-> EmptyMap]

\* The tables process_records creates before its loop.
NewLocals ==
    [insts |-> EmptyMap, profs |-> EmptyMap, copies |-> EmptyMap, fills |-> EmptyMap]

\* Procs::create_proc: entry(proc_id).or_insert_with(Proc::new)
create_proc(procs, proc_id) ==
    IF proc_id \in DOMAIN procs THEN procs ELSE MapInsert(procs, proc_id, NewProc(None))

\* Record::ProcDesc: create_proc(proc_id).set_kind(kind)
proc_desc(b, proc_id, kind) ==
    LET Made(procs) ==
            IF procs[proc_id].kind \notin {None, Some(kind)}
            THEN [b EXCEPT !.panic = "Proc::set_kind: assert"]
            ELSE [b EXCEPT !.state.procs = [procs EXCEPT ![proc_id].kind = Some(kind)]]
    IN  Made(create_proc(b.state.procs, proc_id))

\* Record::MemDesc: mems.entry(mem_id).or_insert_with(Mem::new)
mem_desc(b, mem_id, kind, capacity) ==
    IF mem_id \in DOMAIN b.state.mems THEN b
    ELSE [b EXCEPT !.state.mems = MapInsert(@, mem_id, NewMem(kind, capacity))]

\* EventEntry::new
EventEntry_new(kind, creator, creation_time, trigger_time) ==
    [kind |-> kind, creator |-> creator, creation_time |-> creation_time,
     trigger_time |-> trigger_time, critical |-> None]

\* Graph::add_node: the new node's index is its position in nodes.
add_node(g, entry) == [g EXCEPT !.nodes = Append(@, entry)]

\* Graph::add_edge: edges are kept in the order they were added; parallel
\* edges are allowed.
add_edge(g, src, dst) == [g EXCEPT !.edges = Append(@, <<src, dst>>)]

\* Graph::update_edge: add the edge unless it is there.
update_edge(g, src, dst) ==
    IF \E i \in DOMAIN g.edges : g.edges[i] = <<src, dst>> THEN g ELSE add_edge(g, src, dst)

\* The tag of an EventID sits above bit 60 and its generation in the low 20
\* bits; the model keeps the layout with 4 bits below the tag and a generation
\* of 2 bits. Ids below BarrierTagShift are plain events.
BarrierTagShift == 16

GenerationModulus == 4

\* EventID::is_barrier
is_barrier(event) == event \div BarrierTagShift = 2

\* EventID::generation
generation(event) == event % GenerationModulus

\* EventID::get_previous_phase (it asserts is_barrier, which its callers
\* have established)
get_previous_phase(event) == IF generation(event) > 1 THEN Some(event - 1) ELSE None

\* EventID::node_id: the events of the model are all made on node 0.
node_id(event) == 0

\* record_event_node that gives a placeholder's event a node of its own.
record_event_node_appending(st, fevent, kind, creator, created, trigger_time, deduplicate) ==
    IF fevent \in DOMAIN st.event_lookup
       /\ st.event_graph.nodes[st.event_lookup[fevent]].kind # "UnknownEvent"
    THEN LET index == st.event_lookup[fevent]
             node_weight == st.event_graph.nodes[index]
         IN  IF deduplicate
             THEN [st |-> st, index |-> index,
                   panic |-> IF node_weight.kind = kind /\ node_weight.creator = Some(creator)
                             THEN "" ELSE "record_event_node: assert (deduplicate)"]
             ELSE [st |-> st, index |-> index,
                   panic |-> "record_event_node: Duplicated recordings of event"]
    ELSE [st |-> [st EXCEPT
                    !.event_graph = add_node(@, EventEntry_new(kind, Some(creator),
                                                               Some(created), trigger_time)),
                    !.event_lookup =
                        MapInsert(MapRemove(@, fevent), fevent, Len(st.event_graph.nodes) + 1)],
          index |-> Len(st.event_graph.nodes) + 1, panic |-> ""]

\* record_event_node that takes every later declaration of an event.
record_event_node_overwriting(st, fevent, kind, creator, created, trigger_time, deduplicate) ==
    IF fevent \in DOMAIN st.event_lookup
    THEN [st |-> [st EXCEPT !.event_graph.nodes[st.event_lookup[fevent]] =
                      EventEntry_new(kind, Some(creator), Some(created), trigger_time)],
          index |-> st.event_lookup[fevent], panic |-> ""]
    ELSE [st |-> [st EXCEPT
                    !.event_graph = add_node(@, EventEntry_new(kind, Some(creator),
                                                               Some(created), trigger_time)),
                    !.event_lookup = MapInsert(@, fevent, Len(st.event_graph.nodes) + 1)],
          index |-> Len(st.event_graph.nodes) + 1, panic |-> ""]

\* State::record_event_node: [st, index, panic]
record_event_node(st, fevent, kind, creator, creation_time, trigger_time, deduplicate) ==
    IF fevent \in DOMAIN st.event_lookup
    THEN LET index == st.event_lookup[fevent]
             node_weight == st.event_graph.nodes[index]
         IN  IF node_weight.kind = "UnknownEvent"
             THEN [st |-> [st EXCEPT !.event_graph.nodes[index] =
                               EventEntry_new(kind, Some(creator), Some(creation_time),
                                              trigger_time)],
                   index |-> index, panic |-> ""]
             ELSE IF deduplicate
             THEN [st |-> st, index |-> index,
                   panic |-> IF node_weight.kind = kind /\ node_weight.creator = Some(creator)
                             THEN "" ELSE "record_event_node: assert (deduplicate)"]
             ELSE [st |-> st, index |-> index,
                   panic |-> "record_event_node: Duplicated recordings of event"]
    ELSE [st |-> [st EXCEPT
                    !.event_graph = add_node(@, EventEntry_new(kind, Some(creator),
                                                               Some(creation_time), trigger_time)),
                    !.event_lookup = MapInsert(@, fevent, Len(st.event_graph.nodes) + 1)],
          index |-> Len(st.event_graph.nodes) + 1, panic |-> ""]

\* find_event_node without the edge from the previous phase of a barrier.
find_event_node_unchained(st, event) ==
    IF event \in DOMAIN st.event_lookup
    THEN [st |-> st, index |-> st.event_lookup[event]]
    ELSE [st |-> [st EXCEPT
                    !.event_graph = add_node(@, EventEntry_new("UnknownEvent", None, None, None)),
                    !.event_lookup = MapInsert(@, event, Len(st.event_graph.nodes) + 1)],
          index |-> Len(st.event_graph.nodes) + 1]

\* State::find_event_node: [st, index]. A barrier met for the first time gets
\* an edge from the node of its previous phase, which is found the same way.
RECURSIVE find_event_node(_, _)
find_event_node(st, event) ==
    IF event \in DOMAIN st.event_lookup
    THEN [st |-> st, index |-> st.event_lookup[event]]
    ELSE LET index == Len(st.event_graph.nodes) + 1
             Chained(f) ==
                 [st |-> [f.st EXCEPT !.event_graph = add_edge(@, f.index, index)],
                  index |-> index]
             Placed(placed) ==
                 IF is_barrier(event) /\ get_previous_phase(event) # None
                 THEN Chained(find_event_node(placed, Unwrap(get_previous_phase(event))))
                 ELSE [st |-> placed, index |-> index]
         IN  Placed([st EXCEPT
                        !.event_graph =
                            add_node(@, EventEntry_new("UnknownEvent", None, None, None)),
                        !.event_lookup = MapInsert(@, event, index)])

\* if let Some(pre) = pre { src = find_event_node(pre); add_edge(src, dst) }
add_precondition(st, pre, dst) ==
    IF pre = None THEN st
    ELSE LET Found(f) == [f.st EXCEPT !.event_graph = add_edge(@, f.index, dst)]
         IN  Found(find_event_node(st, Unwrap(pre)))

\* State::update_last_time
update_last_time(b, value) ==
    [b EXCEPT !.state.last_time = IF value > @ THEN value ELSE @]

\* TimeRange::new_message (its asserts are those of new_full)
new_message(spawn, create, ready, start, stop) ==
    [spawn |-> Some(spawn), create |-> Some(create), ready |-> Some(ready),
     start |-> Some(start), stop |-> Some(stop)]

\* Record::MetaDesc: the variant is kept as its message flag.
meta_desc(b, kind, message) ==
    [b EXCEPT !.state.meta_variants =
        IF kind \in DOMAIN @ THEN @ ELSE MapInsert(@, kind, message)]

\* The MetaTask arm of Proc::create_proc_entry: the entry is pushed onto the
\* meta tasks of (initiation_op, variant_id).
index_meta_task(proc, initiation_op, variant_id, prof_uid) ==
    [proc EXCEPT !.meta_tasks =
        MapInsert(@, <<initiation_op, variant_id>>,
                  Append(IF <<initiation_op, variant_id>> \in DOMAIN @
                         THEN @[<<initiation_op, variant_id>>] ELSE << >>,
                         prof_uid))]

\* State::create_meta (critical None) with the time range a record made.
create_meta(b, op_id, variant_id, proc_id, time_range, creator, fevent) ==
    LET Recorded(creator_uid, o, r) ==
            IF r.panic # "" THEN [b EXCEPT !.panic = r.panic]
            ELSE [b EXCEPT
                    !.alloc = o.alloc,
                    !.state = [r.st EXCEPT
                       !.meta_tasks = MapInsert(@, <<op_id, variant_id>>, proc_id),
                       !.prof_uid_proc = MapInsert(@, o.uid, proc_id),
                       !.procs =
                           [create_proc(@, proc_id) EXCEPT ![proc_id] =
                               create_proc_entry(
                                   index_meta_task(@, op_id, variant_id, o.uid), o.uid,
                                   NewProcEntry(None, Some(op_id), "MetaTask", time_range,
                                                creator_uid))]]]
        Based(creator_uid, o) ==
            IF o.panicked THEN [b EXCEPT !.panic = "create_object: fevent already used"]
            ELSE Recorded(creator_uid, o,
                     record_event_node(b.state, fevent, "TaskEvent", o.uid,
                         Unwrap(IF time_range.spawn # None THEN time_range.spawn
                                ELSE time_range.create),
                         time_range.stop, FALSE))
        Referred(cr) == Based(Some(cr.uid), create_object(cr.alloc, fevent))
    IN  IF creator = None THEN Based(None, create_object(b.alloc, fevent))
        ELSE Referred(create_reference(b.alloc, Unwrap(creator)))

\* Record::MetaInfo
meta_info(b, op_id, lg_id, proc_id, create, ready, start, stop, creator, fevent) ==
    LET Created(c) == IF c.panic # "" THEN c ELSE update_last_time(c, stop)
    IN  IF time_range_check(create, ready, start, stop) # ""
        THEN [b EXCEPT !.panic = time_range_check(create, ready, start, stop)]
        ELSE Created(create_meta(b, op_id, lg_id, proc_id,
                                 new_full(create, ready, start, stop), creator, fevent))

\* Record::MessageInfo
message_info(b, op_id, lg_id, proc_id, spawn, create, ready, start, stop, creator, fevent) ==
    LET Created(c) == IF c.panic # "" THEN c ELSE update_last_time(c, stop)
    IN  IF time_range_check(create, ready, start, stop) # ""
        THEN [b EXCEPT !.panic = time_range_check(create, ready, start, stop)]
        ELSE Created(create_meta(b, op_id, lg_id, proc_id,
                                 new_message(spawn, create, ready, start, stop), creator,
                                 fevent))

\* ProcID::node_id: the owner node sits above bit 40 of a ProcID; the model
\* keeps 4 bits below it.
ProcNodeShift == 16

proc_node_id(proc_id) == proc_id \div ProcNodeShift

\* The keys (OpID, VariantID) of a BTreeMap in their order.
RECURSIVE PairsInOrder(_)
PairsInOrder(S) ==
    IF S = {} THEN << >>
    ELSE LET m == CHOOSE x \in S :
                      \A y \in S : x[1] < y[1] \/ (x[1] = y[1] /\ x[2] <= y[2])
         IN  <<m>> \o PairsInOrder(S \ {m})

\* The closure check_for_skew of check_message_latencies.
\* acc = [panic, total_messages, skew_messages, total_skew, skew_nodes];
\* skew_nodes maps (creator node, node) to [count, total]: the mean Welford's
\* algorithm keeps is total / count, its rounding and the variance (which is
\* only printed) are left out.
check_for_skew(st, acc, proc_id, prof_uid) ==
    LET entry == st.procs[proc_id].entries[prof_uid]
        skew == Unwrap(entry.time_range.spawn) - Unwrap(entry.time_range.create)
        nodes == <<proc_node_id(st.prof_uid_proc[Unwrap(entry.creator)]),
                   proc_node_id(proc_id)>>
        Skewed == [acc EXCEPT !.skew_messages = @ + 1, !.total_skew = @ + skew]
    IN  IF entry.time_range.spawn = None
        THEN [acc EXCEPT !.panic = "check_for_skew: time_range.spawn.unwrap()"]
        ELSE IF entry.time_range.create = None
        THEN [acc EXCEPT !.panic = "check_for_skew: time_range.create.unwrap()"]
        ELSE IF Unwrap(entry.time_range.spawn) <= Unwrap(entry.time_range.create) THEN acc
        ELSE IF entry.creator = None \/ Unwrap(entry.creator) \notin DOMAIN st.prof_uid_proc
        THEN Skewed
        ELSE IF nodes[1] = nodes[2]
        THEN [acc EXCEPT !.panic = "check_for_skew: assert creator node != execution node"]
        ELSE [Skewed EXCEPT !.skew_nodes =
                 MapInsert(@, nodes,
                           IF nodes \in DOMAIN @
                           THEN [count |-> @[nodes].count + 1, total |-> @[nodes].total + skew]
                           ELSE [count |-> 1, total |-> skew])]

\* check_for_skew over the entries uids[i..] of a processor.
RECURSIVE skew_of_entries(_, _, _, _, _)
skew_of_entries(st, acc, proc_id, uids, i) ==
    IF i > Len(uids) \/ acc.panic # "" THEN acc
    ELSE skew_of_entries(st, check_for_skew(st, acc, proc_id, uids[i]), proc_id, uids, i + 1)

\* The loop over proc.meta_tasks of the first pass, from keys[i] on.
RECURSIVE skew_of_meta_tasks(_, _, _, _, _)
skew_of_meta_tasks(st, acc, proc_id, keys, i) ==
    IF i > Len(keys) \/ acc.panic # "" THEN acc
    ELSE IF keys[i][2] \notin DOMAIN st.meta_variants
    THEN [acc EXCEPT !.panic = "check_message_latencies: meta_variants.get().unwrap()"]
    ELSE IF ~st.meta_variants[keys[i][2]]
    THEN skew_of_meta_tasks(st, acc, proc_id, keys, i + 1)
    ELSE skew_of_meta_tasks(
             st,
             skew_of_entries(st,
                 [acc EXCEPT !.total_messages = @ + Len(st.procs[proc_id].meta_tasks[keys[i]])],
                 proc_id, st.procs[proc_id].meta_tasks[keys[i]], 1),
             proc_id, keys, i + 1)

\* The first pass over the processors procs[i..]: the message meta tasks, then
\* the tasks with a spawn time.
RECURSIVE skew_of_procs(_, _, _, _)
skew_of_procs(st, acc, procs, i) ==
    IF i > Len(procs) \/ acc.panic # "" THEN acc
    ELSE LET proc == st.procs[procs[i]]
             Messages(a) ==
                 IF a.panic # "" THEN a
                 ELSE skew_of_entries(st,
                          [a EXCEPT !.total_messages = @ + Cardinality(proc.message_tasks)],
                          procs[i], KeysInOrder(proc.message_tasks), 1)
         IN  skew_of_procs(st,
                 Messages(skew_of_meta_tasks(st, acc, procs[i],
                                             PairsInOrder(DOMAIN proc.meta_tasks), 1)),
                 procs, i + 1)

\* The body of the second pass for one message meta task: lat = [bad_messages,
\* longest_latency]. threshold is in the unit of the timestamps.
message_latency(st, skew_nodes, lat, threshold, proc_id, prof_uid) ==
    LET meta_task == st.procs[proc_id].entries[prof_uid]
        spawn == Unwrap(meta_task.time_range.spawn)
        nodes == <<proc_node_id(st.prof_uid_proc[Unwrap(meta_task.creator)]),
                   proc_node_id(proc_id)>>
        create == Unwrap(meta_task.time_range.create)
                      + IF nodes \in DOMAIN skew_nodes
                        THEN skew_nodes[nodes].total \div skew_nodes[nodes].count ELSE 0
    IN  IF meta_task.creator = None
           \/ Unwrap(meta_task.creator) \notin DOMAIN st.prof_uid_proc
        THEN lat
        ELSE IF spawn <= create
        THEN [bad_messages |-> lat.bad_messages
                                 + IF threshold <= create - spawn THEN 1 ELSE 0,
              longest_latency |-> IF lat.longest_latency < create - spawn
                                  THEN create - spawn ELSE lat.longest_latency]
        ELSE lat

\* The second pass over the message meta tasks in items[i..], a sequence of
\* <<proc_id, prof_uid>>.
RECURSIVE latency_of_entries(_, _, _, _, _, _)
latency_of_entries(st, skew_nodes, lat, threshold, items, i) ==
    IF i > Len(items) THEN lat
    ELSE latency_of_entries(st, skew_nodes,
             message_latency(st, skew_nodes, lat, threshold, items[i][1], items[i][2]),
             threshold, items, i + 1)

\* The message meta tasks in the order of the second pass.
message_meta_tasks(st) ==
    LET OfKey(proc_id, key) ==
            IF st.meta_variants[key[2]]
            THEN [k \in DOMAIN st.procs[proc_id].meta_tasks[key] |->
                     <<proc_id, st.procs[proc_id].meta_tasks[key][k]>>]
            ELSE << >>
        OfProc(proc_id, keys) == Flatten([k \in DOMAIN keys |-> OfKey(proc_id, keys[k])])
        Procs(procs) ==
            Flatten([k \in DOMAIN procs |->
                        OfProc(procs[k], PairsInOrder(DOMAIN st.procs[procs[k]].meta_tasks))])
    IN  Procs(KeysInOrder(DOMAIN st.procs))

\* State::check_message_latencies: [panic, total_messages, skew_messages,
\* bad_messages, skew_warning, latency_warning]; the warnings are what it
\* prints. threshold >= 0 and 0 <= warn_percentage < 100 are asserted.
check_message_latencies(st, threshold, warn_percentage) ==
    LET Quiet(site) ==
            [panic |-> site, total_messages |-> 0, skew_messages |-> 0, bad_messages |-> 0,
             skew_warning |-> FALSE, latency_warning |-> FALSE]
        Reported(acc, lat) ==
            [panic |-> "", total_messages |-> acc.total_messages,
             skew_messages |-> acc.skew_messages, bad_messages |-> lat.bad_messages,
             skew_warning |-> acc.skew_messages # 0,
             latency_warning |->
                 warn_percentage * acc.total_messages <= 100 * lat.bad_messages]
        Skews(acc) ==
            IF acc.panic # "" THEN Quiet(acc.panic)
            ELSE IF acc.total_messages = 0 THEN Quiet("")
            ELSE Reported(acc,
                     latency_of_entries(st, acc.skew_nodes,
                         [bad_messages |-> 0, longest_latency |-> 0], threshold,
                         message_meta_tasks(st), 1))
    IN  IF threshold < 0 THEN Quiet("check_message_latencies: assert threshold >= 0.0")
        ELSE IF warn_percentage < 0 \/ warn_percentage >= 100
        THEN Quiet("check_message_latencies: assert (0.0..100.0).contains(warn_percentage)")
        ELSE Skews(skew_of_procs(st,
                       [panic |-> "", total_messages |-> 0, skew_messages |-> 0,
                        total_skew |-> 0, skew_nodes |-> EmptyMap],
                       KeysInOrder(DOMAIN st.procs), 1))

\* Record::MapperCallDesc, Record::RuntimeCallDesc and Record::Provenance, as
\* far as the call records read them: the ids that are declared.
mapper_call_desc(b, kind) == [b EXCEPT !.state.mapper_call_kinds = @ \cup {kind}]

runtime_call_desc(b, kind) == [b EXCEPT !.state.runtime_call_kinds = @ \cup {kind}]

provenance_record(b, pid) == [b EXCEPT !.state.provenances = @ \cup {pid}]

\* What State::create_mapper_call, create_runtime_call and
\* create_application_call share: the creator is a reference to fevent, the
\* entry gets a fresh ProfUID (Base::new) and goes to the processor.
create_call_entry(b, kind, proc_id, initiation_op, start, stop, fevent) ==
    LET Entered(creator_uid, f) ==
            [b EXCEPT
               !.alloc = f.alloc,
               !.state.prof_uid_proc = MapInsert(@, f.uid, proc_id),
               !.state.procs =
                   [create_proc(@, proc_id) EXCEPT ![proc_id] =
                       create_proc_entry(@, f.uid,
                           NewProcEntry(None, initiation_op, kind, new_call(start, stop),
                                        creator_uid))]]
        Referred(cr) == Entered(Some(cr.uid), create_fresh(cr.alloc))
    IN  IF fevent = None THEN Entered(None, create_fresh(b.alloc))
        ELSE Referred(create_reference(b.alloc, Unwrap(fevent)))

\* State::create_mapper_call
create_mapper_call(b, proc_id, op_id, start, stop, fevent) ==
    create_call_entry(b, "MapperCall", proc_id, IF op_id # 0 THEN Some(op_id) ELSE None,
                      start, stop, fevent)

\* State::create_runtime_call
create_runtime_call(b, proc_id, start, stop, fevent) ==
    create_call_entry(b, "RuntimeCall", proc_id, None, start, stop, fevent)

\* State::create_application_call
create_application_call(b, provenance, proc_id, start, stop, fevent) ==
    IF provenance \notin b.state.provenances
    THEN [b EXCEPT !.panic = "create_application_call: assert provenances.contains_key"]
    ELSE create_call_entry(b, "ApplicationCall", proc_id, None, start, stop, fevent)

\* Record::MapperCallInfo (start <= stop)
mapper_call_info(b, call_threshold, kind, op_id, start, stop, proc_id, fevent) ==
    IF call_threshold <= stop - start
    THEN IF kind \notin b.state.mapper_call_kinds
         THEN [b EXCEPT !.panic = "MapperCallInfo: assert mapper_call_kinds.contains_key"]
         ELSE update_last_time(create_mapper_call(b, proc_id, op_id, start, stop, fevent),
                               stop)
    ELSE b

\* Record::RuntimeCallInfo (start <= stop)
runtime_call_info(b, call_threshold, kind, start, stop, proc_id, fevent) ==
    IF call_threshold <= stop - start
    THEN IF kind \notin b.state.runtime_call_kinds
         THEN [b EXCEPT !.panic = "RuntimeCallInfo: assert runtime_call_kinds.contains_key"]
         ELSE update_last_time(create_runtime_call(b, proc_id, start, stop, fevent), stop)
    ELSE b

\* Record::ApplicationCallInfo (start <= stop): call_threshold is not read.
application_call_info(b, call_threshold, provenance, start, stop, proc_id, fevent) ==
    LET Created(c) == IF c.panic # "" THEN c ELSE update_last_time(c, stop)
    IN  Created(create_application_call(b, provenance, proc_id, start, stop, fevent))

\* State::create_task (creator None, not implicit), as Record::TaskInfo calls it
\* with a TimeRange::new_full.
create_task(b, op_id, proc_id, create, ready, start, stop, fevent) ==
    LET Recorded(o, r) ==
            IF r.panic # "" THEN [b EXCEPT !.panic = r.panic]
            ELSE [b EXCEPT
                    !.alloc = o.alloc,
                    !.state = [r.st EXCEPT
                       !.tasks = MapInsert(@, op_id, proc_id),
                       !.op_prof_uid = MapInsert(@, op_id, o.uid),
                       !.prof_uid_proc = MapInsert(@, o.uid, proc_id),
                       !.procs =
                           [create_proc(@, proc_id) EXCEPT ![proc_id] =
                               create_proc_entry(@, o.uid,
                                   NewProcEntry(Some(op_id), None, "Task",
                                                new_full(create, ready, start, stop), None))]]]
        Based(o) ==
            IF o.panicked THEN [b EXCEPT !.panic = "create_object: fevent already used"]
            ELSE Recorded(o, record_event_node(b.state, fevent, "TaskEvent", o.uid, create,
                                               Some(stop), FALSE))
    IN  IF time_range_check(create, ready, start, stop) # ""
        THEN [b EXCEPT !.panic = time_range_check(create, ready, start, stop)]
        ELSE Based(create_object(b.alloc, fevent))

\* Record::TaskInfo: create_task, then update_last_time(stop).
task_info(b, op_id, proc_id, create, ready, start, stop, fevent) ==
    LET Created(c) == IF c.panic # "" THEN c ELSE update_last_time(c, stop)
    IN  Created(create_task(b, op_id, proc_id, create, ready, start, stop, fevent))

\* Record::TaskWaitInfo: find_task_mut(op_id).unwrap(), then add_wait_interval.
task_wait_info(b, op_id, start, ready, end, event) ==
    IF \/ op_id \notin DOMAIN b.state.tasks
       \/ b.state.tasks[op_id] \notin DOMAIN b.state.procs
       \/ op_id \notin DOMAIN b.state.procs[b.state.tasks[op_id]].tasks
    THEN [b EXCEPT !.panic = "TaskWaitInfo: find_task_mut(op_id).unwrap()"]
    ELSE IF ~(start <= ready /\ ready <= end)
    THEN [b EXCEPT !.panic = "WaitInterval::from_event: assert"]
    ELSE LET proc_id == b.state.tasks[op_id]
             uid == b.state.procs[proc_id].tasks[op_id]
         IN  [b EXCEPT !.state.procs[proc_id].entries[uid].waiters =
                 Append(@, from_event(start, ready, end, event, None))]

\* State::create_inst: the instance of fevent, made on first mention.
\* Returns the bundle with uid set to the instance's ProfUID.
create_inst(b, fevent) ==
    LET Fresh(o) ==
            IF o.panicked
            THEN [b EXCEPT !.panic = "create_object: fevent already used"] @@ [uid |-> 0]
            ELSE [b EXCEPT !.alloc = o.alloc, !.insts = MapInsert(@, o.uid, Inst_new)]
                 @@ [uid |-> o.uid]
        Referred(r) ==
            IF r.uid \in DOMAIN b.insts THEN [b EXCEPT !.alloc = r.alloc] @@ [uid |-> r.uid]
            ELSE Fresh(create_object(r.alloc, fevent))
    IN  Referred(create_reference(b.alloc, fevent))

\* Record::InstTimelineInfo
inst_timeline_info(b, fevent, mem_id, size, create, ready, destroy, creator) ==
    LET Recorded(b2, r) ==
            IF r.panic # "" THEN [b EXCEPT !.panic = r.panic]
            ELSE update_last_time(
                     [b2 EXCEPT !.state.event_graph = r.st.event_graph,
                                !.state.event_lookup = r.st.event_lookup],
                     destroy)
        Made(creator_uid, inst_uid, c) ==
            IF c.panic # "" THEN [b EXCEPT !.panic = c.panic]
            ELSE IF c.insts[c.uid].mem_id \notin {None, Some(mem_id)}
            THEN [b EXCEPT !.panic = "Inst::set_mem: assert"]
            ELSE IF c.insts[c.uid].size \notin {None, Some(size)}
            THEN [b EXCEPT !.panic = "Inst::set_size: assert"]
            ELSE Recorded(
                   [b EXCEPT
                      !.alloc = c.alloc,
                      !.state.insts = IF inst_uid \in DOMAIN @ THEN @
                                      ELSE MapInsert(@, inst_uid, mem_id),
                      !.insts = [c.insts EXCEPT ![c.uid] =
                          [set_start_stop(@, create, ready, destroy) EXCEPT
                              !.mem_id = Some(mem_id), !.size = Some(size),
                              !.creator = Some(creator_uid)]]],
                   record_event_node(b.state, fevent, "InstanceDeletion", inst_uid, create,
                                     Some(destroy), FALSE))
        Inst(cr, ir) == Made(cr.uid, ir.uid, create_inst([b EXCEPT !.alloc = ir.alloc], fevent))
        Creator(cr) == Inst(cr, create_reference(cr.alloc, fevent))
    IN  Creator(create_reference(b.alloc, creator))

\* Record::ProfTaskInfo: State::create_prof_task, the profs row, and for an
\* allocation response the instance's set_allocated.
prof_task_info(b, proc_id, op_id, start, stop, creator, fevent, completion) ==
    LET Allocated(b2, c) ==
            IF c.panic # "" THEN [b EXCEPT !.panic = c.panic]
            ELSE [b2 EXCEPT !.alloc = c.alloc,
                            !.insts = [c.insts EXCEPT ![c.uid] = set_allocated(@, start)]]
        Timed(b2) == IF b2.panic # "" THEN b2 ELSE update_last_time(b2, stop)
        Entered(b2) ==
            Timed(IF completion THEN b2 ELSE Allocated(b2, create_inst(b2, creator)))
        Recorded(cr, o, r) ==
            IF r.panic # "" THEN [b EXCEPT !.panic = r.panic]
            ELSE Entered([b EXCEPT
                    !.alloc = o.alloc,
                    !.state = [r.st EXCEPT
                       !.prof_uid_proc = MapInsert(@, o.uid, proc_id),
                       !.procs =
                           [create_proc(@, proc_id) EXCEPT ![proc_id] =
                               create_proc_entry(@, o.uid,
                                   NewProcEntry(None, Some(op_id), "ProfTask",
                                                new_call(start, stop), Some(cr.uid)))]],
                    !.profs = MapInsert(@, o.uid, <<creator, cr.uid, completion>>)])
        Based(cr, o) ==
            IF o.panicked THEN [b EXCEPT !.panic = "create_object: fevent already used"]
            ELSE Recorded(cr, o, record_event_node(b.state, fevent, "TaskEvent", o.uid, start,
                                                   Some(stop), FALSE))
        Creator(cr) == Based(cr, create_object(cr.alloc, fevent))
    IN  IF start > stop THEN [b EXCEPT !.panic = "TimeRange::new_call: assert"]
        ELSE Creator(create_reference(b.alloc, creator))

\* Record::SpawnInfo: prof_uid_proc.get(&task_uid).unwrap(), record_spawn_time.
spawn_info(b, fevent, spawn) ==
    LET Referred(r) ==
            IF r.uid \notin DOMAIN b.state.prof_uid_proc
            THEN [b EXCEPT !.panic = "SpawnInfo: prof_uid_proc.get(&task_uid).unwrap()"]
            ELSE IF b.state.procs[b.state.prof_uid_proc[r.uid]].entries[r.uid].time_range.spawn
                        # None
            THEN [b EXCEPT !.panic = "Proc::record_spawn_time: assert"]
            ELSE [b EXCEPT
                    !.alloc = r.alloc,
                    !.state.procs[b.state.prof_uid_proc[r.uid]].entries[r.uid].time_range.spawn
                        = Some(spawn),
                    !.state.procs[b.state.prof_uid_proc[r.uid]].message_tasks = @ \cup {r.uid}]
    IN  Referred(create_reference(b.alloc, fevent))

\* Record::EventWaitInfo: procs.get_mut(proc_id).unwrap(), record_event_wait.
event_wait_info(b, proc_id, fevent, event, backtrace_id) ==
    LET Referred(r) ==
            IF proc_id \notin DOMAIN b.state.procs
            THEN [b EXCEPT !.panic = "EventWaitInfo: procs.get_mut(proc_id).unwrap()"]
            ELSE [b EXCEPT
                    !.alloc = r.alloc,
                    !.state.procs[proc_id] = record_event_wait(@, r.uid, event, backtrace_id)]
    IN  Referred(create_reference(b.alloc, fevent))

\* The first loop after the records: every instance goes into its memory.
RECURSIVE insts_into_mems(_, _, _)
insts_into_mems(b, uids, i) ==
    IF i > Len(uids) \/ b.panic # "" THEN b
    ELSE LET inst == b.insts[uids[i]]
         IN  IF inst.mem_id = None
             THEN [b EXCEPT !.panic = "process_records: unreachable (inst.mem_id is None)"]
             ELSE IF Unwrap(inst.mem_id) \notin DOMAIN b.state.mems
             THEN [b EXCEPT !.panic = "process_records: mems.get_mut(&mem_id).unwrap()"]
             ELSE insts_into_mems(
                      [b EXCEPT !.state.mems[Unwrap(inst.mem_id)] = add_inst(@, uids[i], inst)],
                      uids, i + 1)

\* State::find_chan_mut
find_chan_mut(chans, chan_id) ==
    IF chan_id \in DOMAIN chans THEN chans ELSE MapInsert(chans, chan_id, NewChan)

\* ChanID::new_fill: <<variant, src, dst>>, 0 for the field the variant lacks.
new_fill(dst) == <<"Fill", 0, dst>>

\* Fill::add_channel: [fill, panic]
fill_add_channel(fill) ==
    IF fill.chan_id # None
    THEN [fill |-> fill, panic |-> "Fill::add_channel: assert chan_id.is_none()"]
    ELSE IF fill.fill_inst_infos = << >>
    THEN [fill |-> fill, panic |-> "Fill::add_channel: assert !fill_inst_infos.is_empty()"]
    ELSE IF \E i \in DOMAIN fill.fill_inst_infos :
                fill.fill_inst_infos[i].dst # fill.fill_inst_infos[1].dst
    THEN [fill |-> fill, panic |-> "Fill::add_channel: assert _dst == chan_dst"]
    ELSE [fill |-> [fill EXCEPT !.chan_id = Some(new_fill(fill.fill_inst_infos[1].dst))],
          panic |-> ""]

\* The second loop after the records: every fill with a FillInstInfo goes
\* into its channel.
RECURSIVE fills_into_chans(_, _, _, _)
fills_into_chans(b, fills, fevents, i) ==
    IF i > Len(fevents) \/ b.panic # "" THEN b
    ELSE IF fills[fevents[i]].fill_inst_infos = << >>
    THEN fills_into_chans(b, fills, fevents, i + 1)
    ELSE LET Placed(a) ==
                 IF a.panic # "" THEN [b EXCEPT !.panic = a.panic]
                 ELSE [b EXCEPT
                         !.state.prof_uid_chan =
                             MapInsert(@, a.fill.prof_uid, Unwrap(a.fill.chan_id)),
                         !.state.chans =
                             [find_chan_mut(@, Unwrap(a.fill.chan_id)) EXCEPT
                                 ![Unwrap(a.fill.chan_id)] =
                                     add_chan_entry(@, a.fill.prof_uid, a.fill)]]
         IN  fills_into_chans(Placed(fill_add_channel(fills[fevents[i]])), fills, fevents,
                              i + 1)

\* ProcEntry::creation_time: spawn.or(create)
creation_time(entry) ==
    IF entry.time_range.spawn # None THEN entry.time_range.spawn ELSE entry.time_range.create

\* State::find_prof_task_times: [panic, creator, create, ready]; create and ready
\* are Options that the caller's unwrap() has yet to open.
find_prof_task_times(st, copies, creator, creator_uid, completion) ==
    IF creator_uid \in DOMAIN st.prof_uid_proc
    THEN LET entries == st.procs[st.prof_uid_proc[creator_uid]].entries
         IN  IF ~completion
             THEN [panic |-> "find_prof_task_times: assert!(completion)",
                   creator |-> None, create |-> None, ready |-> None]
             ELSE IF creator_uid \notin DOMAIN entries
             THEN [panic |-> "find_prof_task_times: find_entry(creator_uid).unwrap()",
                   creator |-> None, create |-> None, ready |-> None]
             ELSE [panic |-> "", creator |-> entries[creator_uid].creator,
                   create |-> creation_time(entries[creator_uid]),
                   ready |-> entries[creator_uid].time_range.stop]
    ELSE IF creator_uid \in DOMAIN st.prof_uid_chan
    THEN IF ~completion
         THEN [panic |-> "find_prof_task_times: assert!(completion)",
               creator |-> None, create |-> None, ready |-> None]
         ELSE IF \/ st.prof_uid_chan[creator_uid] \notin DOMAIN st.chans
                 \/ creator_uid \notin DOMAIN st.chans[st.prof_uid_chan[creator_uid]].entries
         THEN [panic |-> "find_prof_task_times: chan.find_entry(creator_uid).unwrap()",
               creator |-> None, create |-> None, ready |-> None]
         ELSE LET entry == st.chans[st.prof_uid_chan[creator_uid]].entries[creator_uid]
              IN  [panic |-> "", creator |-> entry.creator,
                   create |-> entry.time_range.create,
                   ready |-> entry.time_range.stop]
    ELSE IF creator_uid \in DOMAIN st.insts
    THEN IF \/ st.insts[creator_uid] \notin DOMAIN st.mems
            \/ creator_uid \notin DOMAIN st.mems[st.insts[creator_uid]].insts
         THEN [panic |-> "find_prof_task_times: mem.entry(creator_uid)",
               creator |-> None, create |-> None, ready |-> None]
         ELSE LET inst == st.mems[st.insts[creator_uid]].insts[creator_uid]
              IN  [panic |-> "", creator |-> inst.creator,
                   create |-> inst.time_range.create,
                   ready |-> IF completion THEN inst.time_range.stop
                             ELSE inst.time_range.ready]
    ELSE IF creator \in DOMAIN copies
    THEN [panic |-> "", creator |-> copies[creator].creator,
          create |-> copies[creator].time_range.create,
          ready |-> copies[creator].time_range.stop]
    ELSE [panic |-> "find_prof_task_times: unreachable",
          creator |-> None, create |-> None, ready |-> None]

\* update_prof_task_times that leaves the creator as ingest set it.
update_prof_task_times_keeping_creator(proc, prof_uid, new_creator_uid, create, ready) ==
    [proc EXCEPT !.entries[prof_uid].time_range.create = Some(create),
                 !.entries[prof_uid].time_range.ready = Some(ready)]

\* Proc::update_prof_task_times, its asserts passed: nothing compares the new
\* create and ready with the entry's start.
update_prof_task_times(proc, prof_uid, new_creator_uid, create, ready) ==
    [proc EXCEPT !.entries[prof_uid].creator = new_creator_uid,
                 !.entries[prof_uid].time_range.create = Some(create),
                 !.entries[prof_uid].time_range.ready = Some(ready)]

\* The loop over profs: every ProfTask entry gets its creator's times.
RECURSIVE link_prof_tasks(_, _, _, _)
link_prof_tasks(b, copies, uids, i) ==
    IF i > Len(uids) \/ b.panic # "" THEN b
    ELSE
      LET prof_uid == uids[i]
          Found(t) ==
              IF t.panic # "" THEN [b EXCEPT !.panic = t.panic]
              ELSE IF t.create = None \/ t.ready = None
              THEN [b EXCEPT !.panic = "find_prof_task_times: unwrap() of None"]
              ELSE IF prof_uid \notin DOMAIN b.state.prof_uid_proc
              THEN [b EXCEPT !.panic = "process_records: prof_uid_proc.get(&prof_uid).unwrap()"]
              ELSE IF LET e == b.state.procs[b.state.prof_uid_proc[prof_uid]].entries[prof_uid]
                      IN  e.kind # "ProfTask" \/ e.time_range.create # None
                          \/ e.time_range.ready # None
              THEN [b EXCEPT !.panic = "Proc::update_prof_task_times: assert"]
              ELSE link_prof_tasks(
                       [b EXCEPT !.state.procs[b.state.prof_uid_proc[prof_uid]] =
                           update_prof_task_times(@, prof_uid, t.creator,
                                                  Unwrap(t.create), Unwrap(t.ready))],
                       copies, uids, i + 1)
      IN  Found(find_prof_task_times(b.state, copies, b.profs[prof_uid][1],
                                     b.profs[prof_uid][2], b.profs[prof_uid][3]))

\* State::process_records after its loop over the records, up to the copies.
finish_records(b, fills, copies) ==
    LET Filled(f) == IF f.panic # "" THEN f
                     ELSE link_prof_tasks(f, copies, KeysInOrder(DOMAIN f.profs), 1)
        Placed(m) == IF m.panic # "" THEN m
                     ELSE Filled(fills_into_chans(m, fills, KeysInOrder(DOMAIN fills), 1))
    IN  Placed(insts_into_mems(b, KeysInOrder(DOMAIN b.insts), 1))

\* The clip closure of TimeRange::trim_time_range
clip(value, start, stop) ==
    IF value <= start THEN 0
    ELSE IF value - start > stop - start THEN stop - start
    ELSE value - start

\* TimeRange::trim_time_range: [drop |-> the entry lies outside, tr |-> the range
\* afterwards]. create, ready, start and stop are clipped; spawn is not touched.
trim_time_range(tr, start, stop) ==
    LET Clipped(o) == IF o = None THEN None ELSE Some(clip(Unwrap(o), start, stop))
    IN  IF \/ (tr.stop # None /\ Unwrap(tr.stop) < start)
           \/ (tr.start # None /\ Unwrap(tr.start) > stop)
        THEN [drop |-> TRUE, tr |-> tr]
        ELSE [drop |-> FALSE,
              tr |-> [tr EXCEPT !.create = Clipped(@), !.ready = Clipped(@),
                                !.start = Clipped(@), !.stop = Clipped(@)]]

\* entries.retain(|_, t| !t.trim_time_range(start, stop)) of Proc, Mem and Chan
retain_trimmed(entries, start, stop) ==
    LET kept == {u \in DOMAIN entries : ~trim_time_range(entries[u].time_range, start, stop).drop}
    IN  [u \in kept |->
            [entries[u] EXCEPT !.time_range = trim_time_range(@, start, stop).tr]]

\* State::trim_time_range with Option arguments: [st |-> the state afterwards,
\* panic |-> site or ""].
state_trim_time_range(st, start_arg, stop_arg) ==
    LET Trim(start, stop) ==
            IF ~(start <= stop) THEN [st |-> st, panic |-> "trim_time_range: assert start <= stop"]
            ELSE IF ~(stop <= st.last_time)
            THEN [st |-> st, panic |-> "trim_time_range: assert stop <= last_time"]
            ELSE [panic |-> "",
                  st |-> [st EXCEPT
                     !.procs = [p \in DOMAIN @ |->
                         [@[p] EXCEPT !.entries = retain_trimmed(@, start, stop)]],
                     !.mems = [m \in DOMAIN @ |->
                         [@[m] EXCEPT !.insts = retain_trimmed(@, start, stop)]],
                     !.chans = [c \in DOMAIN @ |->
                         [@[c] EXCEPT !.entries = retain_trimmed(@, start, stop)]],
                     !.last_time = stop - start]]
    IN  IF start_arg = None /\ stop_arg = None THEN [st |-> st, panic |-> ""]
        ELSE Trim(IF start_arg = None THEN 0 ELSE Unwrap(start_arg),
                  IF stop_arg = None THEN st.last_time ELSE Unwrap(stop_arg))

(***************************************************************************)
(* The event graph and critical paths                                      *)
(***************************************************************************)
\* The kinds whose trigger time compute_critical_paths propagates.
PropagatedKinds ==
    {"MergeEvent", "TriggerEvent", "PoisonEvent", "ArriveBarrier", "InstanceReady",
     "InstanceRedistrict", "ExternalHandshake", "ReservationAcquire", "CompletionQueueEvent"}

\* Record::EventMergerInfo (pre2 and pre3 are None)
event_merger_info(b, result, fevent, performed, pre0, pre1) ==
    LET Recorded(alloc, r) ==
            IF r.panic # "" THEN [b EXCEPT !.panic = r.panic]
            ELSE [b EXCEPT !.alloc = alloc,
                           !.state = add_precondition(add_precondition(r.st, pre0, r.index),
                                                      pre1, r.index)]
        Referred(cr) ==
            Recorded(cr.alloc, record_event_node(b.state, result, "MergeEvent", cr.uid,
                                                 performed, None, TRUE))
    IN  Referred(create_reference(b.alloc, fevent))

\* Record::EventTriggerInfo
event_trigger_info(b, result, fevent, precondition, performed) ==
    LET deduplicate == node_id(result) # node_id(fevent)
        Linked(st, dst) ==
            IF precondition = None THEN st
            ELSE LET Found(f) ==
                         [f.st EXCEPT !.event_graph =
                             IF deduplicate THEN update_edge(@, f.index, dst)
                             ELSE add_edge(@, f.index, dst)]
                 IN  Found(find_event_node(st, Unwrap(precondition)))
        Recorded(alloc, r) ==
            IF r.panic # "" THEN [b EXCEPT !.panic = r.panic]
            ELSE [b EXCEPT !.alloc = alloc, !.state = Linked(r.st, r.index)]
        Referred(cr) ==
            Recorded(cr.alloc, record_event_node(b.state, result, "TriggerEvent", cr.uid,
                                                 performed, None, deduplicate))
    IN  Referred(create_reference(b.alloc, fevent))

\* Record::ReservationAcquireInfo
reservation_acquire_info(b, result, fevent, precondition, performed) ==
    LET Recorded(alloc, r) ==
            IF r.panic # "" THEN [b EXCEPT !.panic = r.panic]
            ELSE [b EXCEPT !.alloc = alloc,
                           !.state = add_precondition(r.st, precondition, r.index)]
        Referred(cr) ==
            Recorded(cr.alloc, record_event_node(b.state, result, "ReservationAcquire",
                                                 cr.uid, performed, None, FALSE))
    IN  Referred(create_reference(b.alloc, fevent))

\* A new node for a barrier arrival, with the edge from the previous phase.
new_barrier_node(st, result, entry) ==
    LET index == Len(st.event_graph.nodes) + 1
        Chained(f) == [f.st EXCEPT !.event_graph = add_edge(@, f.index, index)]
        Placed(placed) ==
            IF get_previous_phase(result) # None
            THEN Chained(find_event_node(placed, Unwrap(get_previous_phase(result))))
            ELSE placed
    IN  Placed([st EXCEPT !.event_graph = add_node(@, entry),
                          !.event_lookup = MapInsert(@, result, index)])

\* The handshake branch of Record::BarrierArrivalInfo (fevent == result):
\* [st, panic]
barrier_handshake(st, result, performed) ==
    IF result \in DOMAIN st.event_lookup
    THEN LET index == st.event_lookup[result]
             node_weight == st.event_graph.nodes[index]
         IN  IF node_weight.kind = "UnknownEvent"
             THEN [st |-> [st EXCEPT
                             !.event_graph.nodes[index].kind = "ExternalHandshake",
                             !.event_graph.nodes[index].trigger_time = Some(performed)],
                   panic |-> ""]
             ELSE IF node_weight.kind = "ExternalHandshake"
             THEN IF node_weight.trigger_time = None
                  THEN [st |-> st,
                        panic |-> "BarrierArrivalInfo: trigger_time.unwrap()"]
                  ELSE IF Unwrap(node_weight.trigger_time) < performed
                  THEN [st |-> [st EXCEPT
                                  !.event_graph.nodes[index].trigger_time = Some(performed)],
                        panic |-> ""]
                  ELSE [st |-> st, panic |-> ""]
             ELSE [st |-> st, panic |-> "BarrierArrivalInfo: unreachable"]
    ELSE [st |-> new_barrier_node(st, result,
                     EventEntry_new("ExternalHandshake", None, Some(performed), None)),
          panic |-> ""]

\* The normal-arrival branch of Record::BarrierArrivalInfo: [st, panic]
barrier_arrival(st, result, creator_uid, performed) ==
    IF result \in DOMAIN st.event_lookup
    THEN LET index == st.event_lookup[result]
             node_weight == st.event_graph.nodes[index]
             Latest == [st EXCEPT
                          !.event_graph.nodes[index].creator = Some(creator_uid),
                          !.event_graph.nodes[index].creation_time = Some(performed)]
         IN  IF node_weight.kind = "UnknownEvent"
             THEN [st |-> [Latest EXCEPT !.event_graph.nodes[index].kind = "ArriveBarrier"],
                   panic |-> ""]
             ELSE IF node_weight.kind = "ArriveBarrier"
             THEN IF node_weight.creation_time = None
                  THEN [st |-> st,
                        panic |-> "BarrierArrivalInfo: creation_time.unwrap()"]
                  ELSE IF Unwrap(node_weight.creation_time) < performed
                  THEN [st |-> Latest, panic |-> ""]
                  ELSE [st |-> st, panic |-> ""]
             ELSE [st |-> st, panic |-> "BarrierArrivalInfo: unreachable"]
    ELSE [st |-> new_barrier_node(st, result,
                     EventEntry_new("ArriveBarrier", Some(creator_uid), Some(performed),
                                    None)),
          panic |-> ""]

\* Record::BarrierArrivalInfo
barrier_arrival_info(b, result, fevent, precondition, performed) ==
    LET Linked(st) ==
            IF precondition = None THEN st
            ELSE LET Found(f) ==
                         [f.st EXCEPT !.event_graph =
                             update_edge(@, f.index, f.st.event_lookup[result])]
                 IN  Found(find_event_node(st, Unwrap(precondition)))
        Arrived(alloc, r) ==
            IF r.panic # "" THEN [b EXCEPT !.panic = r.panic]
            ELSE [b EXCEPT !.alloc = alloc, !.state = Linked(r.st)]
        Referred(cr) ==
            Arrived(cr.alloc, barrier_arrival(b.state, result, cr.uid, performed))
    IN  IF ~is_barrier(result)
        THEN [b EXCEPT !.panic = "BarrierArrivalInfo: assert result.is_barrier()"]
        ELSE IF fevent = result
        THEN Arrived(b.alloc, barrier_handshake(b.state, result, performed))
        ELSE Referred(create_reference(b.alloc, fevent))

\* Record::CompletionQueueInfo (pre2 and pre3 are None)
completion_queue_info(b, result, fevent, performed, pre0, pre1) ==
    LET Recorded(alloc, r) ==
            IF r.panic # "" THEN [b EXCEPT !.panic = r.panic]
            ELSE [b EXCEPT !.alloc = alloc,
                           !.state = add_precondition(add_precondition(r.st, pre0, r.index),
                                                      pre1, r.index)]
        Referred(cr) ==
            Recorded(cr.alloc, record_event_node(b.state, result, "CompletionQueueEvent",
                                                 cr.uid, performed, None, TRUE))
    IN  Referred(create_reference(b.alloc, fevent))

\* has_critical_path_data that takes any graph.
has_critical_path_data_always(st) == TRUE

\* State::has_critical_path_data
has_critical_path_data(st) == Len(st.event_graph.edges) > 0

\* petgraph's toposort: [cycle |-> TRUE] when the graph has a cycle (a self
\* loop included), else an order in which every edge leads forward. What
\* compute_critical_paths computes for a vertex reads only the sources of the
\* vertex, so every such order gives the same result; this is the one that
\* takes the lowest ready index first.
RECURSIVE toposort_from(_, _, _)
toposort_from(g, order, remaining) ==
    IF remaining = {} THEN [cycle |-> FALSE, order |-> order]
    ELSE LET ready == {v \in remaining :
                          \A i \in DOMAIN g.edges :
                              g.edges[i][2] = v => g.edges[i][1] \notin remaining}
         IN  IF ready = {} THEN [cycle |-> TRUE, order |-> << >>]
             ELSE LET v == CHOOSE x \in ready : \A y \in ready : x <= y
                  IN  toposort_from(g, Append(order, v), remaining \ {v})

toposort(g) == toposort_from(g, << >>, DOMAIN g.nodes)

\* edges_directed(vertex, Incoming): the sources of the edges into vertex, the
\* edge added last first.
incoming_sources(g, vertex) ==
    LET into == SelectSeq(g.edges, LAMBDA e : e[2] = vertex)
    IN  [i \in 1..Len(into) |-> into[Len(into) + 1 - i][1]]

\* The source itself taken for the vertex that decides the source's time.
critical_of_source_itself(source, src) == Some(source)

\* src.critical: the vertex that decides when the source triggers, which the
\* vertex scanned inherits from the source.
critical_of_source(source, src) == src.critical

\* The loop over the incoming edges of a vertex.
\* acc = [latest, earliest, unknown, panic]; latest and earliest are Options
\* of <<critical vertex, trigger time>>, unknown an Option of a vertex.
RECURSIVE scan_incoming(_, _, _, _)
scan_incoming(nodes, srcs, i, acc) ==
    IF i > Len(srcs) \/ acc.panic # "" THEN acc
    ELSE LET src == nodes[srcs[i]]
         IN  IF src.trigger_time # None
             THEN IF src.critical = None
                  THEN [acc EXCEPT !.panic = "compute_critical_paths: src.critical.unwrap()"]
                  ELSE LET trigger_time == Unwrap(src.trigger_time)
                           here == Some(<<Unwrap(critical_of_source(srcs[i], src)),
                                          trigger_time>>)
                       IN  IF acc.latest # None
                           THEN scan_incoming(nodes, srcs, i + 1,
                                  [acc EXCEPT
                                     !.latest = IF Unwrap(acc.latest)[2] < trigger_time
                                                THEN here ELSE @,
                                     !.earliest = IF trigger_time < Unwrap(acc.earliest)[2]
                                                  THEN here ELSE @])
                           ELSE scan_incoming(nodes, srcs, i + 1,
                                  [acc EXCEPT !.latest = here, !.earliest = here])
             ELSE IF src.critical = None
             THEN [acc EXCEPT !.panic = "compute_critical_paths: assert unknown.is_some()"]
             ELSE [acc EXCEPT !.unknown = critical_of_source(srcs[i], src)]

\* A tainted vertex is left as it was.
taint_dropped(nodes, vertex, unknown) == nodes

\* A vertex tainted by an unknown event: the unknown event is its critical path.
taint(nodes, vertex, unknown) == [nodes EXCEPT ![vertex].critical = unknown]

\* The latest precondition whatever the kind.
effective_latest_of_any_kind(kind, latest, earliest) == latest

\* A completion queue event triggers on its earliest precondition.
effective_latest(kind, latest, earliest) ==
    IF kind = "CompletionQueueEvent" THEN earliest ELSE latest

\* The latest precondition counts whenever there is one.
latest_after_creation_always(created, latest_time) == TRUE

\* Does the latest precondition come after the point where the event was made?
latest_after_creation(created, latest_time) == created < latest_time

\* The body of the loop over the topological order: [nodes, panic].
critical_of_vertex(g, nodes, vertex) ==
    LET event_entry == nodes[vertex]
        Timed(critical, trigger_time) ==
            IF event_entry.kind \in PropagatedKinds
            THEN IF event_entry.trigger_time # None
                 THEN [nodes |-> nodes,
                       panic |-> "compute_critical_paths: assert trigger_time.is_none()"]
                 ELSE [nodes |-> [nodes EXCEPT ![vertex].critical = critical,
                                               ![vertex].trigger_time = trigger_time],
                       panic |-> ""]
            ELSE IF event_entry.trigger_time = None
            THEN [nodes |-> nodes,
                  panic |-> "compute_critical_paths: assert trigger_time.is_some()"]
            ELSE [nodes |-> [nodes EXCEPT ![vertex].critical = critical], panic |-> ""]
        Chosen(latest) ==
            IF latest = None THEN Timed(Some(vertex), event_entry.creation_time)
            ELSE IF event_entry.creation_time = None
            THEN [nodes |-> nodes, panic |-> "compute_critical_paths: creation_time.unwrap()"]
            ELSE IF latest_after_creation(Unwrap(event_entry.creation_time), Unwrap(latest)[2])
            THEN Timed(Some(Unwrap(latest)[1]), Some(Unwrap(latest)[2]))
            ELSE Timed(Some(vertex), event_entry.creation_time)
        Scanned(acc) ==
            IF acc.panic # "" THEN [nodes |-> nodes, panic |-> acc.panic]
            ELSE IF event_entry.kind = "UnknownEvent"
            THEN IF acc.latest # None
                 THEN [nodes |-> nodes, panic |-> "compute_critical_paths: assert latest.is_none()"]
                 ELSE [nodes |-> [nodes EXCEPT ![vertex].critical = Some(vertex)], panic |-> ""]
            ELSE IF acc.unknown # None
            THEN [nodes |-> taint(nodes, vertex, acc.unknown), panic |-> ""]
            ELSE Chosen(effective_latest(event_entry.kind, acc.latest, acc.earliest))
    IN  Scanned(scan_incoming(nodes, incoming_sources(g, vertex), 1,
                              [latest |-> None, earliest |-> None, unknown |-> None,
                               panic |-> ""]))

RECURSIVE critical_in_order(_, _, _, _)
critical_in_order(g, order, i, r) ==
    IF i > Len(order) \/ r.panic # "" THEN r
    ELSE critical_in_order(g, order, i + 1, critical_of_vertex(g, r.nodes, order[i]))

\* State::compute_critical_paths: [st |-> the state afterwards, panic |-> site or ""]
compute_critical_paths(st) ==
    LET Done(r) ==
            IF r.panic # "" THEN [st |-> st, panic |-> r.panic]
            ELSE [st |-> [st EXCEPT !.event_graph.nodes = r.nodes], panic |-> ""]
        Sorted(t) ==
            IF t.cycle THEN [st |-> [st EXCEPT !.event_lookup = EmptyMap], panic |-> ""]
            ELSE Done(critical_in_order(st.event_graph, t.order, 1,
                                        [nodes |-> st.event_graph.nodes, panic |-> ""]))
    IN  IF ~has_critical_path_data(st)
        THEN [st |-> [st EXCEPT !.event_lookup = EmptyMap], panic |-> ""]
        ELSE Sorted(toposort(st.event_graph))

\* State::find_critical_entry: [entry |-> an Option of an EventEntry, panic]
find_critical_entry(st, event) ==
    IF event \notin DOMAIN st.event_lookup THEN [entry |-> None, panic |-> ""]
    ELSE LET id == st.event_lookup[event]
             nodes == st.event_graph.nodes
         IN  IF id \notin DOMAIN nodes THEN [entry |-> None, panic |-> ""]
             ELSE IF nodes[id].critical # None
             THEN IF Unwrap(nodes[id].critical) = id
                  THEN [entry |-> Some(nodes[id]), panic |-> ""]
                  ELSE IF Unwrap(nodes[id].critical) \in DOMAIN nodes
                  THEN [entry |-> Some(nodes[Unwrap(nodes[id].critical)]), panic |-> ""]
                  ELSE [entry |-> None, panic |-> ""]
             ELSE IF nodes[id].kind # "UnknownEvent"
             THEN [entry |-> None, panic |-> "find_critical_entry: assert"]
             ELSE [entry |-> Some(nodes[id]), panic |-> ""]

(***************************************************************************)
(* SpecAlloc: the allocator driven call by call.                           *)
(***************************************************************************)
NoCall == [op |-> "none", arg |-> 0, val |-> 0]

InitAlloc ==
    /\ prof_uid_allocator = NewAllocator
    /\ has_prof_data = FALSE
    /\ panic = ""
    /\ call = NoCall
    /\ issued = {}
    /\ fresh = {}
    /\ parses = 0
    /\ container = [type |-> "none"]
    /\ passes = << >>
    /\ first_run = None
    /\ state = NewState
    /\ locals = NewLocals
    /\ pending = {}

CallCreateFresh ==
    /\ panic = ""
    /\ prof_uid_allocator.next_prof_uid < MaxUID
    /\ LET r == create_fresh(prof_uid_allocator)
       IN  /\ prof_uid_allocator' = r.alloc
           /\ call' = [op |-> "create_fresh", arg |-> 0, val |-> r.uid]
           /\ fresh' = fresh \cup {r.uid}
    /\ UNCHANGED <<has_prof_data, panic, issued, parses>>
    /\ UNCHANGED levelVars
    /\ UNCHANGED ingestVars

CallCreateReference ==
    /\ panic = ""
    /\ \E e \in Fevents :
          LET r == create_reference(prof_uid_allocator, e)
          IN  /\ r.alloc.next_prof_uid <= MaxUID
              /\ prof_uid_allocator' = r.alloc
              /\ call' = [op |-> "create_reference", arg |-> e, val |-> r.uid]
              /\ issued' = issued \cup {<<e, r.uid>>}
    /\ UNCHANGED <<has_prof_data, panic, fresh, parses>>
    /\ UNCHANGED levelVars
    /\ UNCHANGED ingestVars

CallCreateObject ==
    /\ panic = ""
    /\ \E e \in Fevents :
          LET r == create_object(prof_uid_allocator, e)
          IN  /\ r.alloc.next_prof_uid <= MaxUID
              /\ prof_uid_allocator' = r.alloc
              /\ call' = [op |-> "create_object", arg |-> e, val |-> r.uid]
              /\ panic' = IF r.panicked THEN "create_object: fevent already used" ELSE ""
              /\ issued' = IF r.panicked THEN issued ELSE issued \cup {<<e, r.uid>>}
    /\ UNCHANGED <<has_prof_data, fresh, parses>>
    /\ UNCHANGED levelVars
    /\ UNCHANGED ingestVars

\* State::process_records on an empty record list: only has_prof_data is set.
CallProcessNoRecords ==
    /\ panic = ""
    /\ ~has_prof_data
    /\ has_prof_data' = TRUE
    /\ call' = [op |-> "process_records", arg |-> 0, val |-> 0]
    /\ UNCHANGED <<prof_uid_allocator, panic, issued, fresh, parses>>
    /\ UNCHANGED levelVars
    /\ UNCHANGED ingestVars

\* State::complete_parse: the allocator's complete_parse, returns has_prof_data.
CallCompleteParse ==
    /\ panic = ""
    /\ parses < MaxParses
    /\ prof_uid_allocator' = alloc_complete_parse(prof_uid_allocator)
    /\ call' = [op |-> "complete_parse", arg |-> 0, val |-> IF has_prof_data THEN 1 ELSE 0]
    /\ parses' = parses + 1
    /\ UNCHANGED <<has_prof_data, panic, issued, fresh>>
    /\ UNCHANGED levelVars
    /\ UNCHANGED ingestVars

NextAlloc ==
    \/ CallCreateFresh
    \/ CallCreateReference
    \/ CallCreateObject
    \/ CallProcessNoRecords
    \/ CallCompleteParse

SpecAlloc == InitAlloc /\ [][NextAlloc]_vars

(***************************************************************************)
(* Claims about the allocator (checked under SpecAlloc).                   *)
(***************************************************************************)

\* C6: before complete_parse, every call naming the same fevent returned the
\* same uid, two different fevents never share a uid, and no uid returned by
\* create_fresh is bound to an fevent.
C6_FeventUidBijection ==
    parses = 0 =>
        /\ \A p \in issued, q \in issued : (p[1] = q[1]) <=> (p[2] = q[2])
        /\ \A p \in issued : p[2] \notin fresh
        /\ \A e \in DOMAIN prof_uid_allocator.fevents :
              prof_uid_allocator.fevents[e] \notin fresh

\* C6 witness: two fevents interned around a fresh uid, one of them named twice.
C6_Witness ==
    /\ parses = 0
    /\ Cardinality(issued) >= 2
    /\ fresh # {}
    /\ call.op = "create_reference"
    /\ call.val < prof_uid_allocator.next_prof_uid

\* C7: right after complete_parse, find_fevent(u) = e for every pair (e, u)
\* that create_reference or create_object produced, and the forward map is empty.
C7_ReverseLookupRoundTrip ==
    call.op = "complete_parse" =>
        /\ DOMAIN prof_uid_allocator.fevents = {}
        /\ \A p \in issued : find_fevent(prof_uid_allocator, p[2]) = Some(p[1])

\* C7 witness: complete_parse has run over at least two interned fevents.
C7_Witness ==
    /\ call.op = "complete_parse"
    /\ parses = 1
    /\ Cardinality(issued) >= 2

\* C8: a complete_parse that directly follows a complete_parse returns the same
\* value and changes no query result: the reverse lookup (find_fevent of every
\* uid) and has_prof_data stay as they were.
C8_CompleteParseIdempotent ==
    [][(call.op = "complete_parse" /\ call'.op = "complete_parse") =>
          /\ call'.val = call.val
          /\ prof_uid_allocator'.reverse_lookup = prof_uid_allocator.reverse_lookup
          /\ \A p \in issued :
                find_fevent(prof_uid_allocator', p[2]) = find_fevent(prof_uid_allocator, p[2])
          /\ has_prof_data' = has_prof_data]_vars

\* C8 witness: two complete_parse calls in a row over a non-empty table.
C8_Witness ==
    /\ call.op = "complete_parse"
    /\ parses = 2
    /\ issued # {}
    /\ DOMAIN prof_uid_allocator.reverse_lookup # {}
    /\ prof_uid_allocator.next_prof_uid = Cardinality(DOMAIN prof_uid_allocator.reverse_lookup)

\* C9: a create_object call for an fevent already created as an object in this
\* ingest aborts; a create_reference call never aborts and returns the uid the
\* fevent already has, before or after the defining create_object.
C9_SecondCreateObjectAborts ==
    [][panic = "" =>
          /\ (call'.op = "create_object" /\ call'.arg \in prof_uid_allocator.used_fevents)
                => panic' # ""
          /\ (call'.op = "create_object" /\ call'.arg \notin prof_uid_allocator.used_fevents)
                => panic' = ""
          /\ call'.op = "create_reference" =>
                /\ panic' = ""
                /\ call'.arg \in DOMAIN prof_uid_allocator.fevents
                      => call'.val = prof_uid_allocator.fevents[call'.arg]]_vars

\* C9 witness: the second create_object of an fevent that was also referenced.
C9_Witness ==
    /\ panic = "create_object: fevent already used"
    /\ call.op = "create_object"
    /\ Cardinality(issued) >= 2
    /\ parses = 0

(***************************************************************************)
(* SpecLevels: one container is filled, then sorted and stacked, twice.    *)
(***************************************************************************)
MaxEntries == 3
MaxGpuRecords == 2
MaxRichEntries == 2
MaxTime == 2
MaxRuns == 2

Times == 0..MaxTime

AllocIdle ==
    /\ prof_uid_allocator = NewAllocator
    /\ has_prof_data = FALSE
    /\ call = NoCall
    /\ issued = {}
    /\ fresh = {}
    /\ parses = 0

InitLevels ==
    /\ AllocIdle
    /\ panic = ""
    /\ container \in {[type |-> "Proc", c |-> NewProc(Some("CPU"))],
                      [type |-> "Proc", c |-> NewProc(Some("GPU"))],
                      [type |-> "Mem", c |-> NewMem("System", 0)],
                      [type |-> "Chan", c |-> NewChan]}
    /\ passes = << >>
    /\ first_run = None
    /\ state = NewState
    /\ locals = NewLocals
    /\ pending = {}

\* The entries of the container, whatever its type.
Entries(ct) == IF ct.type = "Mem" THEN ct.c.insts ELSE ct.c.entries

\* Container::max_levels of Proc (host or device), Mem and Chan.
max_levels(ct, device) ==
    IF ct.type = "Mem" THEN ct.c.max_live_insts
    ELSE IF ct.type = "Chan" THEN ct.c.max_levels
    ELSE IF device THEN ct.c.max_levels_device ELSE ct.c.max_levels

NumEntries == Cardinality(DOMAIN Entries(container))

\* ProfUIDs are handed out consecutively.
NextUID == NumEntries + 1

\* The wait intervals recorded on the processor's entries.
NumWaits(proc) ==
    LET RECURSIVE Sum(_)
        Sum(S) == IF S = {} THEN 0
                  ELSE LET u == CHOOSE u \in S : TRUE
                       IN  Len(proc.entries[u].waiters) + Sum(S \ {u})
    IN  Sum(DOMAIN proc.entries)

IsRich(proc) ==
    \E u \in DOMAIN proc.entries :
        IsCall(proc.entries[u].kind) \/ proc.entries[u].waiters # << >>

Filling == panic = "" /\ passes = << >>

\* State::create_task on the processor (Record::TaskInfo): a Task entry.
ProcCreateTask ==
    /\ Filling
    /\ container.type = "Proc"
    /\ NumEntries < (IF container.c.kind = Some("GPU") THEN MaxGpuRecords
                     ELSE IF IsRich(container.c) THEN MaxRichEntries ELSE MaxEntries)
    /\ \E start \in Times, stop \in Times :
          /\ time_range_check(start, start, start, stop) = ""
          /\ container' = [container EXCEPT !.c =
                 create_proc_entry(@, NextUID,
                     NewProcEntry(Some(NextUID), None, "Task",
                                  new_full(start, start, start, stop), None))]
    /\ UNCHANGED <<prof_uid_allocator, has_prof_data, panic, call, issued, fresh, parses,
                   passes, first_run>>
    /\ UNCHANGED ingestVars

\* State::create_gpu_kernel and create_task (Record::GPUTaskInfo): the kernel
\* entry (Base::new) and then the task entry.
ProcCreateGPUTask ==
    /\ Filling
    /\ container.type = "Proc" /\ container.c.kind = Some("GPU")
    /\ NumEntries < MaxGpuRecords
    /\ \E start \in Times, stop \in Times :
          /\ time_range_check(start, start, start, stop) = ""
          /\ container' = [container EXCEPT !.c =
                 create_proc_entry(
                     create_proc_entry(@, NextUID,
                         NewProcEntry(Some(NextUID + 1), None, "GPUKernel",
                                      new_call(start, stop), Some(NextUID + 1))),
                     NextUID + 1,
                     NewProcEntry(Some(NextUID + 1), None, "Task",
                                  new_full(start, start, start, stop), None))]
    /\ UNCHANGED <<prof_uid_allocator, has_prof_data, panic, call, issued, fresh, parses,
                   passes, first_run>>
    /\ UNCHANGED ingestVars

\* State::create_runtime_call: a call made by a task of the processor, within it.
ProcCreateRuntimeCall ==
    /\ Filling
    /\ container.type = "Proc" /\ container.c.kind = Some("CPU")
    /\ NumEntries < MaxRichEntries
    /\ \E t \in DOMAIN container.c.entries, start \in Times, stop \in Times :
          /\ container.c.entries[t].kind = "Task"
          /\ Unwrap(container.c.entries[t].time_range.start) <= start
          /\ start <= stop
          /\ stop <= Unwrap(container.c.entries[t].time_range.stop)
          /\ container' = [container EXCEPT !.c =
                 create_proc_entry(@, NextUID,
                     NewProcEntry(None, None, "RuntimeCall", new_call(start, stop), Some(t)))]
    /\ UNCHANGED <<prof_uid_allocator, has_prof_data, panic, call, issued, fresh, parses,
                   passes, first_run>>
    /\ UNCHANGED ingestVars

\* Waiters::add_wait_interval (Record::TaskWaitInfo): a wait of a task on
\* event 1, within the task.
ProcAddWaitInterval ==
    /\ Filling
    /\ container.type = "Proc" /\ container.c.kind = Some("CPU")
    /\ NumEntries <= MaxRichEntries
    /\ NumWaits(container.c) = 0
    /\ \E t \in DOMAIN container.c.entries, start \in Times, ready \in Times, end \in Times :
          /\ container.c.entries[t].kind = "Task"
          /\ Unwrap(container.c.entries[t].time_range.start) <= start
          /\ start <= ready
          /\ ready <= end
          /\ end <= Unwrap(container.c.entries[t].time_range.stop)
          /\ container' = [container EXCEPT !.c.entries[t].waiters =
                 Append(@, from_event(start, ready, end, 1, None))]
    /\ UNCHANGED <<prof_uid_allocator, has_prof_data, panic, call, issued, fresh, parses,
                   passes, first_run>>
    /\ UNCHANGED ingestVars

\* Mem::add_inst of an instance with its times and size set.
MemAddInst ==
    /\ Filling
    /\ container.type = "Mem"
    /\ NumEntries < MaxEntries
    /\ \E ready \in Times, destroy \in Times :
          /\ ready <= destroy
          /\ container' = [container EXCEPT !.c =
                 add_inst(@, NextUID, NewInst(ready, ready, destroy, 1))]
    /\ UNCHANGED <<prof_uid_allocator, has_prof_data, panic, call, issued, fresh, parses,
                   passes, first_run>>
    /\ UNCHANGED ingestVars

\* Chan::add_copy of a copy with a full time range.
ChanAddCopy ==
    /\ Filling
    /\ container.type = "Chan"
    /\ NumEntries < MaxEntries
    /\ \E start \in Times, stop \in Times :
          /\ time_range_check(start, start, start, stop) = ""
          /\ container' = [container EXCEPT !.c =
                 add_chan_entry(@, NextUID,
                     NewChanEntry("Copy", new_full(start, start, start, stop)))]
    /\ UNCHANGED <<prof_uid_allocator, has_prof_data, panic, call, issued, fresh, parses,
                   passes, first_run>>
    /\ UNCHANGED ingestVars

\* State::sort_time_range on the container.
SortTimeRange ==
    /\ panic = ""
    /\ Len(passes) < 2 * MaxRuns
    /\ Len(passes) % 2 = 0
    /\ \E r \in {IF container.type = "Proc" THEN proc_sort_time_range(container.c)
                 ELSE IF container.type = "Mem" THEN mem_sort_time_range(container.c)
                 ELSE chan_sort_time_range(container.c)} :
          /\ container' = [container EXCEPT !.c = r.c]
          /\ panic' = r.panic
    /\ passes' = Append(passes, "sort_time_range")
    /\ UNCHANGED <<prof_uid_allocator, has_prof_data, call, issued, fresh, parses, first_run>>
    /\ UNCHANGED ingestVars

\* State::stack_time_points on the container.
StackTimePoints ==
    /\ panic = ""
    /\ Len(passes) % 2 = 1
    /\ container' = [container EXCEPT !.c =
           IF container.type = "Proc" THEN proc_stack_time_points(@)
           ELSE IF container.type = "Mem" THEN mem_stack_time_points(@)
           ELSE chan_stack_time_points(@)]
    /\ passes' = Append(passes, "stack_time_points")
    /\ first_run' = IF first_run = None THEN Some(container') ELSE first_run
    /\ UNCHANGED <<prof_uid_allocator, has_prof_data, panic, call, issued, fresh, parses>>
    /\ UNCHANGED ingestVars

NextLevels ==
    \/ ProcCreateTask
    \/ ProcCreateGPUTask
    \/ ProcCreateRuntimeCall
    \/ ProcAddWaitInterval
    \/ MemAddInst
    \/ ChanAddCopy
    \/ SortTimeRange
    \/ StackTimePoints

SpecLevels == InitLevels /\ [][NextLevels]_vars

(***************************************************************************)
(* Level assignment: C1 to C4                                              *)
(***************************************************************************)
\* The first sort_time_range ran to its end (a later run that aborts leaves
\* the container as the first one made it).
Levelled == Len(passes) >= 1 /\ (panic = "" \/ Len(passes) > 1)

EntryStart(u) == Unwrap(Entries(container)[u].time_range.start)

EntryStop(u) == Unwrap(Entries(container)[u].time_range.stop)

EntryLevel(u) == Unwrap(Entries(container)[u].level)

EntryOnDevice(u) ==
    container.type = "Proc" /\ OnDevice(container.c.kind, container.c.entries[u])

\* C1: after sort_time_range two distinct entries of one processor in the same
\* partition (both host or both device) with the same level never overlap:
\* one stops no later than the other starts.
C1_SameLevelDisjoint ==
    (Levelled /\ container.type = "Proc") =>
        \A a \in DOMAIN container.c.entries, b \in DOMAIN container.c.entries :
            (a # b /\ EntryOnDevice(a) = EntryOnDevice(b) /\ EntryLevel(a) = EntryLevel(b))
                => (EntryStop(a) <= EntryStart(b) \/ EntryStop(b) <= EntryStart(a))

\* A sorted processor holding a zero-length entry and two entries that start
\* together, where two entries of one partition share a level.
C1_Witness ==
    /\ Levelled /\ container.type = "Proc" /\ panic = ""
    /\ \E a \in DOMAIN container.c.entries, b \in DOMAIN container.c.entries,
          c \in DOMAIN container.c.entries :
          /\ a # b /\ b # c /\ a # c
          /\ EntryOnDevice(a) = EntryOnDevice(b) /\ EntryLevel(a) = EntryLevel(b)
          /\ EntryStart(a) = EntryStop(a)
          /\ EntryStart(c) = EntryStart(b) /\ EntryOnDevice(c) = EntryOnDevice(b)

SetMin(S) == CHOOSE x \in S : \A y \in S : x <= y

\* The level the sweep owes the entry at position i of the sorted start points
\* tp: the smallest level released by an entry that started and stopped before,
\* and not taken again since; else the number of levels handed out so far.
OwedLevel(tp, i) ==
    LET earlier == {tp[j].entry : j \in 1..(i - 1)}
        live == {a \in earlier : ~(EntryStop(a) < EntryStart(tp[i].entry))}
        handed == {EntryLevel(a) : a \in earlier}
        released == handed \ {EntryLevel(a) : a \in live}
    IN  IF released # {} THEN SetMin(released) ELSE Cardinality(handed)

\* C3: in the sweep of a processor every start point gets the smallest level
\* released by an earlier stop point and not reused, and a new level (the
\* current max_levels) only when no released level is left.
C3_SmallestReleasedLevel ==
    (Len(passes) = 1 /\ panic = "" /\ container.type = "Proc") =>
        /\ \A i \in 1..Len(container.c.time_points) :
              EntryLevel(container.c.time_points[i].entry)
                  = OwedLevel(container.c.time_points, i)
        /\ \A i \in 1..Len(container.c.time_points_device) :
              EntryLevel(container.c.time_points_device[i].entry)
                  = OwedLevel(container.c.time_points_device, i)

\* Three tasks on levels 0, 1, 1: the third starts after the second stopped and
\* while the first still runs, so it reuses level 1.
C3_Witness ==
    /\ Len(passes) = 1 /\ panic = "" /\ container.type = "Proc"
    /\ \E a \in DOMAIN container.c.entries, b \in DOMAIN container.c.entries,
          c \in DOMAIN container.c.entries :
          /\ ~EntryOnDevice(a) /\ ~EntryOnDevice(b) /\ ~EntryOnDevice(c)
          /\ EntryLevel(a) = 0 /\ EntryLevel(b) = 1 /\ EntryLevel(c) = 1 /\ b # c
          /\ EntryStart(a) <= EntryStart(b)
          /\ EntryStop(b) < EntryStart(c)
          /\ EntryStart(c) <= EntryStop(a)

\* What a run of sort_time_range and stack_time_points leaves for the reader.
RunResults(ct) ==
    [levels |-> [u \in DOMAIN Entries(ct) |-> Entries(ct)[u].level],
     max_levels |-> <<max_levels(ct, FALSE), max_levels(ct, TRUE)>>,
     time_points_stacked |->
         <<ct.c.time_points_stacked,
           IF ct.type = "Proc" THEN ct.c.time_points_stacked_device ELSE << >>>>,
     util_time_points |->
         <<ct.c.util_time_points,
           IF ct.type = "Proc" THEN ct.c.util_time_points_device ELSE << >>>>]

RunningAt(t, device) ==
    {u \in DOMAIN container.c.entries :
        /\ EntryOnDevice(u) = device
        /\ EntryStart(u) <= t /\ t <= EntryStop(u)}

\* The largest number of entries of one partition that share a time instant;
\* a peak is always reached at the start of some entry.
PeakOverlap(device) ==
    LET starts == {EntryStart(u) : u \in DOMAIN container.c.entries}
        counts == {Cardinality(RunningAt(t, device)) : t \in starts} \cup {0}
    IN  CHOOSE n \in counts : \A m \in counts : m <= n

\* C37: after sort_time_range the number of levels of every processor
\* partition and of every channel equals the largest number of entries whose
\* closed intervals [start, stop] share a time instant.
C37_LevelsArePeakOverlap ==
    (Levelled /\ container.type \in {"Proc", "Chan"}) =>
        \A device \in (IF container.type = "Proc" THEN BOOLEAN ELSE {FALSE}) :
            max_levels(container, device) = PeakOverlap(device)

\* A sorted container where one entry stops at the instant another starts
\* (they share that instant and sit on two levels) and a third entry starts
\* later on a released level.
C37_Witness ==
    /\ Levelled /\ panic = "" /\ container.type \in {"Proc", "Chan"}
    /\ \E a \in DOMAIN container.c.entries, b \in DOMAIN container.c.entries,
          c \in DOMAIN container.c.entries :
          /\ EntryOnDevice(a) = EntryOnDevice(b) /\ EntryOnDevice(b) = EntryOnDevice(c)
          /\ EntryStart(a) < EntryStop(a) /\ EntryStop(a) = EntryStart(b)
          /\ EntryLevel(a) # EntryLevel(b)
          /\ EntryStop(a) < EntryStart(c) /\ EntryLevel(c) = EntryLevel(a)
          /\ max_levels(container, EntryOnDevice(a)) = 2

\* A sorted GPU processor with a kernel on the device timeline and two tasks
\* that share an instant on the host timeline: each partition has its own count.
GpuPartitionsCounted ==
    /\ Levelled /\ panic = "" /\ container.type = "Proc"
    /\ PeakOverlap(TRUE) = 1 /\ PeakOverlap(FALSE) = 2

\* A sorted channel with three copies that share an instant.
ChannelPeakOfThree ==
    /\ Levelled /\ panic = "" /\ container.type = "Chan"
    /\ PeakOverlap(FALSE) = 3

(***************************************************************************)
(* Wait intervals: C11                                                     *)
(***************************************************************************)
\* The wait intervals of every entry of the processor.
WaitIntervals ==
    IF container.type # "Proc" THEN {}
    ELSE UNION {{container.c.entries[u].waiters[i] : i \in DOMAIN container.c.entries[u].waiters} :
                u \in DOMAIN container.c.entries}

\* C11 as stated: every wait interval, after ingest and after caller/waiter
\* reconciliation, has start <= ready <= end, and ready = end exactly when its
\* callee is set.
C11_AsStated ==
    \A w \in WaitIntervals :
        /\ w.start <= w.ready /\ w.ready <= w.end
        /\ (w.ready = w.end) <=> (w.callee # None)

\* C11 amended: every wait interval, after ingest and after caller/waiter
\* reconciliation, has start <= ready <= end and exactly one of callee and
\* event set; when its callee is set, ready = end. An event wait may have
\* ready = end as well.
C11_CalleeWaitReadyAtEnd ==
    \A w \in WaitIntervals :
        /\ w.start <= w.ready /\ w.ready <= w.end
        /\ (w.callee = None) # (w.event = None)
        /\ (w.callee # None) => (w.ready = w.end)

\* A reconciled processor holding a callee wait of a call that lasts, and an
\* event wait that was ready before it ended.
C11_Witness ==
    /\ Len(passes) >= 1 /\ panic = ""
    /\ \E w \in WaitIntervals : w.callee # None /\ w.start < w.end
    /\ \E w \in WaitIntervals : w.event # None /\ w.ready < w.end

(***************************************************************************)
(* SpecIngest: process_records is handed the records of one small log, in  *)
(* any order, a record at a time, and finishes at any point. The log, in   *)
(* the order the logger writes it: a processor and a memory description, a *)
(* task (op 1, fevent 1) on processor 1, a wait of that task, an instance  *)
(* (fevent 2) in memory 1 created by the task and destroyed at MaxTime, a  *)
(* profiling response (fevent 3, stopping as it starts) for the task or    *)
(* for the instance, the spawn time of the task and an event wait of it.   *)
(***************************************************************************)
LoggerOrder ==
    <<"ProcDesc", "MemDesc", "TaskInfo", "TaskWaitInfo", "InstTimelineInfo",
      "ProfTaskInfo", "SpawnInfo", "EventWaitInfo">>

Records == {LoggerOrder[i] : i \in DOMAIN LoggerOrder}

InitIngest ==
    /\ AllocIdle
    /\ panic = ""
    /\ container = [type |-> "none"]
    /\ passes = << >>
    /\ first_run = None
    /\ state = NewState
    /\ locals = NewLocals
    /\ pending = Records

Bundle ==
    [alloc |-> prof_uid_allocator, state |-> state, insts |-> locals.insts,
     profs |-> locals.profs, panic |-> ""]

\* process_records hands the record to process_record, which leaves b.
Handed(record, b) ==
    /\ prof_uid_allocator' = b.alloc
    /\ state' = b.state
    /\ locals' = [locals EXCEPT !.insts = b.insts, !.profs = b.profs]
    /\ panic' = b.panic
    /\ pending' = pending \ {record}
    /\ UNCHANGED <<has_prof_data, call, issued, fresh, parses>>
    /\ UNCHANGED levelVars

Reading(record) == panic = "" /\ ~has_prof_data /\ record \in pending

ProcDesc ==
    /\ Reading("ProcDesc")
    /\ Handed("ProcDesc", proc_desc(Bundle, 1, "CPU"))

MemDesc ==
    /\ Reading("MemDesc")
    /\ Handed("MemDesc", mem_desc(Bundle, 1, "System", 0))

TaskInfo ==
    /\ Reading("TaskInfo")
    /\ \E start \in Times, stop \in Times :
          /\ start <= stop
          /\ Handed("TaskInfo", task_info(Bundle, 1, 1, start, start, start, stop, 1))

TaskWaitInfo ==
    /\ Reading("TaskWaitInfo")
    /\ Handed("TaskWaitInfo", task_wait_info(Bundle, 1, 0, 0, 0, 1))

InstTimelineInfo ==
    /\ Reading("InstTimelineInfo")
    /\ \E create \in Times, ready \in Times :
          Handed("InstTimelineInfo",
                 inst_timeline_info(Bundle, 2, 1, 1, create, ready, MaxTime, 1))

ProfTaskInfo ==
    /\ Reading("ProfTaskInfo")
    /\ \E start \in Times, subject \in {<<1, TRUE>>, <<2, TRUE>>, <<2, FALSE>>} :
          Handed("ProfTaskInfo",
                 prof_task_info(Bundle, 1, 1, start, start, subject[1], 3, subject[2]))

SpawnInfo ==
    /\ Reading("SpawnInfo")
    /\ \E spawn \in {0, MaxTime} : Handed("SpawnInfo", spawn_info(Bundle, 1, spawn))

EventWaitInfo ==
    /\ Reading("EventWaitInfo")
    /\ Handed("EventWaitInfo", event_wait_info(Bundle, 1, 1, 1, 1))

\* The rest of process_records, once the loop over the records is through.
FinishRecords ==
    /\ panic = "" /\ ~has_prof_data
    /\ \E b \in {finish_records(Bundle, locals.fills, locals.copies)} :
          /\ prof_uid_allocator' = b.alloc
          /\ state' = b.state
          /\ locals' = IF b.panic = "" THEN NewLocals ELSE locals
          /\ panic' = b.panic
          /\ has_prof_data' = (b.panic = "")
    /\ UNCHANGED <<pending, call, issued, fresh, parses>>
    /\ UNCHANGED levelVars

\* State::trim_time_range, called once process_records has returned.
TrimTimeRange ==
    /\ panic = "" /\ has_prof_data /\ call.op = "none"
    /\ \E start \in {None} \cup {Some(t) : t \in Times},
          stop \in {None} \cup {Some(t) : t \in Times} :
          \E r \in {state_trim_time_range(state, start, stop)} :
             /\ state' = r.st
             /\ panic' = r.panic
             /\ call' = [op |-> "trim_time_range", arg |-> <<start, stop>>, val |-> 0]
    /\ UNCHANGED <<prof_uid_allocator, has_prof_data, issued, fresh, parses, locals, pending>>
    /\ UNCHANGED levelVars

NextIngest ==
    \/ TrimTimeRange
    \/ ProcDesc
    \/ MemDesc
    \/ TaskInfo
    \/ TaskWaitInfo
    \/ InstTimelineInfo
    \/ ProfTaskInfo
    \/ SpawnInfo
    \/ EventWaitInfo
    \/ FinishRecords

SpecIngest == InitIngest /\ [][NextIngest]_vars

\* The records arrived in the logger's order: what is pending is a tail of it.
InLoggerOrder ==
    \E k \in 0..Len(LoggerOrder) : pending = {LoggerOrder[i] : i \in (k + 1)..Len(LoggerOrder)}

\* The log is sound: handed over in the logger's order, it is ingested whole.
LoggerOrderIngests == (InLoggerOrder /\ call.op = "none") => panic = ""

\* C5 as stated: records may arrive in any order, a dependent row (TaskWaitInfo,
\* SpawnInfo, EventWaitInfo) before the record that defines its parent
\* (TaskInfo, ProcDesc): ingest never aborts on a row whose parent is yet to come.
C5_AnyOrderIngests ==
    /\ panic = "TaskWaitInfo: find_task_mut(op_id).unwrap()" => "TaskInfo" \notin pending
    /\ panic = "SpawnInfo: prof_uid_proc.get(&task_uid).unwrap()" => "TaskInfo" \notin pending
    /\ panic = "EventWaitInfo: procs.get_mut(proc_id).unwrap()"
          => ("ProcDesc" \notin pending /\ "TaskInfo" \notin pending)

\* The populated fields among create, ready, start, stop, in that order.
Populated(tr) ==
    SelectSeq(<<tr.create, tr.ready, tr.start, tr.stop>>, LAMBDA o : o # None)

NonDecreasing(os) == \A i \in 1..(Len(os) - 1) : Unwrap(os[i]) <= Unwrap(os[i + 1])

\* C10 as stated: after process_records every TimeRange of every processor
\* entry and every instance has create <= ready <= start <= stop on the fields
\* that are populated.
C10_TimeRangesOrdered ==
    (has_prof_data /\ panic = "") =>
        /\ \A p \in DOMAIN state.procs : \A u \in DOMAIN state.procs[p].entries :
              NonDecreasing(Populated(state.procs[p].entries[u].time_range))
        /\ \A m \in DOMAIN state.mems : \A u \in DOMAIN state.mems[m].insts :
              NonDecreasing(Populated(state.mems[m].insts[u].time_range))

\* The populated fields of a time range, spawn included.
PopulatedFields(tr) ==
    {Unwrap(o) : o \in {tr.spawn, tr.create, tr.ready, tr.start, tr.stop} \ {None}}

\* The time ranges of the entries the state holds.
RetainedTimeRanges ==
    UNION ({{state.procs[p].entries[u].time_range : u \in DOMAIN state.procs[p].entries} :
                p \in DOMAIN state.procs}
           \cup {{state.mems[m].insts[u].time_range : u \in DOMAIN state.mems[m].insts} :
                m \in DOMAIN state.mems})

\* A trim_time_range(a, b) with a or b given has returned.
Trimmed ==
    call.op = "trim_time_range" /\ panic = "" /\ call.arg # <<None, None>>

\* C12 as stated: after trim_time_range(a, b) with a <= b <= last_time, every
\* populated field (spawn, create, ready, start, stop) of every retained entry
\* lies in [0, b - a], which is the new last_time.
C12_TrimmedFieldsInRange ==
    Trimmed => \A tr \in RetainedTimeRanges :
                  \A t \in PopulatedFields(tr) : 0 <= t /\ t <= state.last_time

(***************************************************************************)
(* SpecCritical: the event records of a log of three events build the      *)
(* event graph, then compute_critical_paths runs. Event k is the finish    *)
(* event of task k when a TaskInfo names it, or the result of an event     *)
(* merger, a trigger or a completion queue; an event that only occurs as a *)
(* precondition stays unknown. The records come in the order of the        *)
(* events; event 1 is the fevent of the task that makes the mergers,       *)
(* triggers and completion queues.                                         *)
(***************************************************************************)
EventIDs == {1, 2, 3}

EventTimes == {5, 10, 20}

\* An Option of an event.
Preconditions == {None} \cup {Some(e) : e \in EventIDs}

\* pre0 and pre1 of a record: pre1 is only given after pre0, and differs.
PreconditionPairs ==
    {pp \in Preconditions \X Preconditions :
        pp[2] # None => (pp[1] # None /\ Unwrap(pp[1]) < Unwrap(pp[2]))}

InitCritical ==
    /\ AllocIdle
    /\ panic = ""
    /\ container = [type |-> "none"]
    /\ passes = << >>
    /\ first_run = None
    /\ state = NewState
    /\ locals = NewLocals
    /\ pending = EventIDs

\* process_record has handled the record of event k and left b.
HandedEvent(k, b) ==
    /\ prof_uid_allocator' = b.alloc
    /\ state' = b.state
    /\ locals' = [locals EXCEPT !.insts = b.insts, !.profs = b.profs]
    /\ panic' = b.panic
    /\ pending' = {j \in pending : j > k}
    /\ UNCHANGED <<has_prof_data, call, issued, fresh, parses>>
    /\ UNCHANGED levelVars

ReadingEvents == panic = "" /\ call.op = "none"

\* Record::TaskInfo of task k, which runs and finishes at time t.
GraphTaskInfo ==
    /\ ReadingEvents
    /\ \E k \in pending, t \in EventTimes :
          HandedEvent(k, task_info(Bundle, k, 1, t, t, t, t, k))

GraphEventMergerInfo ==
    /\ ReadingEvents
    /\ \E k \in pending, performed \in EventTimes, pp \in PreconditionPairs :
          HandedEvent(k, event_merger_info(Bundle, k, 1, performed, pp[1], pp[2]))

GraphEventTriggerInfo ==
    /\ ReadingEvents
    /\ \E k \in pending, performed \in EventTimes, precondition \in Preconditions :
          HandedEvent(k, event_trigger_info(Bundle, k, 1, precondition, performed))

GraphCompletionQueueInfo ==
    /\ ReadingEvents
    /\ \E k \in pending, performed \in EventTimes, pp \in PreconditionPairs :
          HandedEvent(k, completion_queue_info(Bundle, k, 1, performed, pp[1], pp[2]))

\* State::compute_critical_paths
ComputeCriticalPaths ==
    /\ ReadingEvents
    /\ \E r \in {compute_critical_paths(state)} :
          /\ state' = r.st
          /\ panic' = r.panic
    /\ call' = [op |-> "compute_critical_paths", arg |-> 0, val |-> 0]
    /\ UNCHANGED <<prof_uid_allocator, has_prof_data, issued, fresh, parses, locals, pending>>
    /\ UNCHANGED levelVars

NextCritical ==
    \/ GraphTaskInfo
    \/ GraphEventMergerInfo
    \/ GraphEventTriggerInfo
    \/ GraphCompletionQueueInfo
    \/ ComputeCriticalPaths

SpecCritical == InitCritical /\ [][NextCritical]_vars

(***************************************************************************)
(* Critical paths: C13 to C16                                              *)
(***************************************************************************)
Nodes == state.event_graph.nodes

\* compute_critical_paths has returned.
Computed == call.op = "compute_critical_paths" /\ panic = ""

\* compute_critical_paths has returned from its loop over the topological
\* order: the graph has an edge and no cycle.
ComputedPaths ==
    Computed /\ has_critical_path_data(state) /\ ~toposort(state.event_graph).cycle

\* Option<Timestamp> in Rust's order: None is below every Some.
OptionLeq(a, b) == a = None \/ (b # None /\ Unwrap(a) <= Unwrap(b))

\* C13: after compute_critical_paths completes on an acyclic event graph with
\* at least one edge, every node that is not an UnknownEvent has its critical
\* set, and the trigger_time of the node critical points to is <= the node's
\* own trigger_time (an unset trigger_time being below every set one).
C13_CriticalSetAndNotLater ==
    ComputedPaths =>
        \A v \in DOMAIN Nodes :
            Nodes[v].kind # "UnknownEvent" =>
                /\ Nodes[v].critical # None
                /\ Unwrap(Nodes[v].critical) \in DOMAIN Nodes
                /\ OptionLeq(Nodes[Unwrap(Nodes[v].critical)].trigger_time,
                             Nodes[v].trigger_time)

\* Paths were computed over a graph where one event's critical is another
\* event with a trigger time.
C13_Witness ==
    /\ ComputedPaths
    /\ \E v \in DOMAIN Nodes :
          /\ Nodes[v].kind # "UnknownEvent" /\ Nodes[v].trigger_time # None
          /\ Unwrap(Nodes[v].critical) # v
          /\ Nodes[Unwrap(Nodes[v].critical)].trigger_time # None

\* Paths were computed over a graph where one event is tainted by an unknown
\* event.
TaintedComputed ==
    /\ ComputedPaths
    /\ \E v \in DOMAIN Nodes :
          /\ Nodes[v].kind # "UnknownEvent"
          /\ Nodes[Unwrap(Nodes[v].critical)].kind = "UnknownEvent"

\* compute_critical_paths is called on a graph with no edge or with a cycle.
ComputesNothing ==
    /\ call.op = "none" /\ call'.op = "compute_critical_paths"
    /\ state.event_graph.edges = << >> \/ toposort(state.event_graph).cycle

\* C14: called on a graph with no edges, or with a cycle, compute_critical_paths
\* does not abort: it clears event_lookup, leaves every node's critical and
\* trigger_time as they were, and find_critical_entry then returns None for
\* every event.
C14_NoPathsLeavesGraph ==
    [][ComputesNothing =>
          /\ panic' = ""
          /\ state'.event_lookup = EmptyMap
          /\ state'.event_graph = state.event_graph
          /\ \A e \in EventIDs :
                /\ find_critical_entry(state', e).panic = ""
                /\ find_critical_entry(state', e).entry = None]_vars

\* compute_critical_paths has returned from a graph with a cycle whose events
\* had been looked up.
C14_Witness ==
    /\ Computed
    /\ toposort(state.event_graph).cycle
    /\ state.event_graph.nodes # << >>
    /\ state.event_lookup = EmptyMap

\* compute_critical_paths has returned from a graph with nodes and no edge.
NoEdgeComputed ==
    /\ Computed
    /\ state.event_graph.nodes # << >> /\ state.event_graph.edges = << >>
    /\ state.event_lookup = EmptyMap

\* The graph g is the chain a -> b -> c: a is a TaskEvent that triggers at 10,
\* b a MergeEvent made at 5, c a TriggerEvent made at 20.
Chain(g, a, b, c) ==
    /\ Len(g.nodes) = 3 /\ {a, b, c} = {1, 2, 3}
    /\ g.nodes[a].kind = "TaskEvent" /\ g.nodes[a].trigger_time = Some(10)
    /\ g.nodes[b].kind = "MergeEvent" /\ g.nodes[b].creation_time = Some(5)
    /\ g.nodes[c].kind = "TriggerEvent" /\ g.nodes[c].creation_time = Some(20)
    /\ Len(g.edges) = 2 /\ {g.edges[i] : i \in 1..2} = {<<a, b>>, <<b, c>>}

\* compute_critical_paths is called.
Computing == call.op = "none" /\ call'.op = "compute_critical_paths"

\* What the chain's nodes hold after compute_critical_paths, but for critical(c).
ChainHead(nodes, a, b) ==
    /\ nodes[a].critical = Some(a)
    /\ nodes[b].critical = Some(a) /\ nodes[b].trigger_time = Some(10)

\* C15 as stated: on the chain, critical(a) = a, critical(b) = a,
\* trigger_time(b) = 10, critical(c) = a and trigger_time(c) = 20.
C15_AsStated ==
    [][\A a, b, c \in 1..3 :
          (Computing /\ Chain(state.event_graph, a, b, c)) =>
              /\ panic' = ""
              /\ ChainHead(state'.event_graph.nodes, a, b)
              /\ state'.event_graph.nodes[c].critical = Some(a)
              /\ state'.event_graph.nodes[c].trigger_time = Some(20)]_vars

\* C15: on the chain, compute_critical_paths yields critical(a) = a,
\* critical(b) = a, trigger_time(b) = 10, trigger_time(c) = 20 and
\* critical(c) = c: c was made at 20, after b triggered at 10, so c is its own
\* critical path.
C15_ChainCritical ==
    [][\A a, b, c \in 1..3 :
          (Computing /\ Chain(state.event_graph, a, b, c)) =>
              /\ panic' = ""
              /\ ChainHead(state'.event_graph.nodes, a, b)
              /\ state'.event_graph.nodes[c].critical = Some(c)
              /\ state'.event_graph.nodes[c].trigger_time = Some(20)]_vars

\* compute_critical_paths has returned from the chain.
C15_Witness ==
    /\ Computed
    /\ \E a, b, c \in 1..3 :
          /\ Chain(state.event_graph, a, b, c)
          /\ state.event_graph.nodes[b].trigger_time = Some(10)
          /\ state.event_graph.nodes[c].trigger_time = Some(20)

\* The nodes with an edge into v.
Sources(v) ==
    {state.event_graph.edges[i][1] :
        i \in {j \in DOMAIN state.event_graph.edges : state.event_graph.edges[j][2] = v}}

\* A completion queue event all of whose sources (there is at least one) have
\* a trigger time.
TimedQueue(v) ==
    /\ Nodes[v].kind = "CompletionQueueEvent"
    /\ Sources(v) # {}
    /\ \A src \in Sources(v) : Nodes[src].trigger_time # None

\* The sources of v that triggered first.
EarliestSources(v) ==
    {src \in Sources(v) :
        \A other \in Sources(v) :
            Unwrap(Nodes[src].trigger_time) <= Unwrap(Nodes[other].trigger_time)}

\* C16 as stated: a CompletionQueueEvent whose sources all have trigger times
\* has its critical pointing to the source with the minimum trigger time.
C16_AsStated ==
    ComputedPaths =>
        \A v \in DOMAIN Nodes :
            TimedQueue(v) =>
                \E src \in EarliestSources(v) : Nodes[v].critical = Some(src)

\* C16: for a CompletionQueueEvent whose sources all have trigger times, the
\* source with the minimum trigger time is the effective predecessor: when the
\* event was made before that time, its critical is that source's critical and
\* its trigger_time that minimum; otherwise the event is its own critical and
\* its trigger_time is its creation_time.
C16_EarliestSourceDecides ==
    ComputedPaths =>
        \A v \in DOMAIN Nodes :
            TimedQueue(v) =>
                \E src \in EarliestSources(v) :
                    IF Unwrap(Nodes[v].creation_time) < Unwrap(Nodes[src].trigger_time)
                    THEN /\ Nodes[v].critical = Nodes[src].critical
                         /\ Nodes[v].trigger_time = Nodes[src].trigger_time
                    ELSE /\ Nodes[v].critical = Some(v)
                         /\ Nodes[v].trigger_time = Nodes[v].creation_time

\* Paths were computed for a completion queue event made before its two
\* sources triggered at different times.
C16_Witness ==
    /\ ComputedPaths
    /\ \E v \in DOMAIN Nodes :
          /\ TimedQueue(v)
          /\ \E s1, s2 \in Sources(v) :
                /\ Unwrap(Nodes[s1].trigger_time) < Unwrap(Nodes[s2].trigger_time)
                /\ Unwrap(Nodes[v].creation_time) < Unwrap(Nodes[s1].trigger_time)
                /\ Nodes[v].trigger_time = Nodes[s1].trigger_time

\* The sources of v that triggered last.
LatestSources(v) ==
    {src \in Sources(v) :
        \A other \in Sources(v) :
            Unwrap(Nodes[src].trigger_time) >= Unwrap(Nodes[other].trigger_time)}

\* A declared event none of whose sources is without a trigger time.
UntaintedEvent(v) ==
    /\ Nodes[v].kind # "UnknownEvent"
    /\ \A src \in Sources(v) : Nodes[src].trigger_time # None

\* C29: for every untainted node that is not an UnknownEvent, with sel the
\* incoming source with the latest trigger time (the earliest for a
\* CompletionQueueEvent), compute_critical_paths sets critical to sel.critical
\* when sel.time > creation_time and to the node itself otherwise, as it does
\* when the node has no incoming edge.
C29_CriticalOfUntainted ==
    ComputedPaths =>
        \A v \in DOMAIN Nodes :
            UntaintedEvent(v) =>
                IF Sources(v) = {} THEN Nodes[v].critical = Some(v)
                ELSE \E sel \in IF Nodes[v].kind = "CompletionQueueEvent"
                                THEN EarliestSources(v) ELSE LatestSources(v) :
                         IF Unwrap(Nodes[sel].trigger_time) > Unwrap(Nodes[v].creation_time)
                         THEN Nodes[v].critical = Nodes[sel].critical
                         ELSE Nodes[v].critical = Some(v)

\* Paths were computed for two events with the same source: one made before
\* the source triggered, whose critical is the source's, and one made after,
\* which is its own critical.
C29_Witness ==
    /\ ComputedPaths
    /\ \E v, w, src \in DOMAIN Nodes :
          /\ UntaintedEvent(v) /\ UntaintedEvent(w)
          /\ Sources(v) = {src} /\ Sources(w) = {src}
          /\ Unwrap(Nodes[src].trigger_time) > Unwrap(Nodes[v].creation_time)
          /\ Nodes[v].critical = Some(src)
          /\ Unwrap(Nodes[src].trigger_time) < Unwrap(Nodes[w].creation_time)
          /\ Nodes[w].critical = Some(w)

\* The sources of v in graph g that are without a trigger time.
TaintedSources(g, v) ==
    {g.edges[i][1] :
        i \in {j \in DOMAIN g.edges :
                  g.edges[j][2] = v /\ g.nodes[g.edges[j][1]].trigger_time = None}}

\* C31: when compute_critical_paths returns from its loop, every node that is
\* not an UnknownEvent and has a source without a trigger time has the critical
\* of such a source as its critical, which is an UnknownEvent node, and the
\* pass has given it no trigger time: it holds the trigger time it had, so a
\* node that records none of its own passes the taint on.
C31_TaintPropagated ==
    [][(Computing /\ panic' = "" /\ has_critical_path_data(state)
        /\ ~toposort(state.event_graph).cycle) =>
          \A v \in DOMAIN state'.event_graph.nodes :
              (/\ state'.event_graph.nodes[v].kind # "UnknownEvent"
               /\ TaintedSources(state'.event_graph, v) # {}) =>
                  /\ \E src \in TaintedSources(state'.event_graph, v) :
                        /\ state'.event_graph.nodes[v].critical =
                               state'.event_graph.nodes[src].critical
                        /\ state'.event_graph.nodes[
                               Unwrap(state'.event_graph.nodes[src].critical)].kind
                               = "UnknownEvent"
                  /\ state'.event_graph.nodes[v].trigger_time =
                         state.event_graph.nodes[v].trigger_time]_vars

\* Paths were computed over u -> v -> w where u is an UnknownEvent, v and w
\* are declared events without a trigger time of their own, and the taint of
\* u has reached w through v.
C31_Witness ==
    /\ ComputedPaths
    /\ \E u, v, w \in DOMAIN Nodes :
          /\ Nodes[u].kind = "UnknownEvent"
          /\ Nodes[v].kind # "UnknownEvent" /\ Nodes[w].kind # "UnknownEvent"
          /\ Sources(v) = {u} /\ Sources(w) = {v}
          /\ Nodes[v].critical = Some(u) /\ Nodes[v].trigger_time = None
          /\ Nodes[w].critical = Some(u) /\ Nodes[w].trigger_time = None

\* C36: after a compute_critical_paths that returns, critical pointers are
\* idempotent: the node that a node's critical names is its own critical, so
\* no chain of critical pointers is longer than one step, and what
\* find_critical_entry returns for an event is a node that is its own
\* critical.
C36_CriticalIdempotent ==
    Computed =>
        /\ \A n \in DOMAIN Nodes :
              Nodes[n].critical # None =>
                  /\ Unwrap(Nodes[n].critical) \in DOMAIN Nodes
                  /\ Nodes[Unwrap(Nodes[n].critical)].critical = Nodes[n].critical
        /\ \A e \in DOMAIN state.event_lookup :
              LET found == find_critical_entry(state, e)
              IN  /\ found.panic = ""
                  /\ found.entry # None =>
                         \E m \in DOMAIN Nodes :
                             Nodes[m] = Unwrap(found.entry) /\ Nodes[m].critical = Some(m)

\* Paths were computed over a -> b -> c where b and c were made before a
\* triggered: a decides both, and b is not the critical of c.
C36_Witness ==
    /\ ComputedPaths
    /\ \E a, b, c \in DOMAIN Nodes :
          /\ a # b /\ b # c /\ a # c
          /\ Sources(b) = {a} /\ Sources(c) = {b}
          /\ Nodes[a].critical = Some(a)
          /\ Nodes[b].critical = Some(a)
          /\ Nodes[c].critical = Some(a)
          /\ Nodes[c].trigger_time = Nodes[a].trigger_time

(***************************************************************************)
(* Copies: from the CopyInfo and CopyInstInfo records to channel entries.  *)
(***************************************************************************)
\* ChanID::new_copy, new_gather, new_scatter: <<variant, src, dst>>, 0 for the
\* field the variant does not have.
new_copy(src, dst) == <<"Copy", src, dst>>

new_gather(dst) == <<"Gather", 0, dst>>

new_scatter(src) == <<"Scatter", src, 0>>

\* CopyInstInfo::new, as far as split_by_channel reads it.
CopyInstInfo_new(src, dst, indirect) == [src |-> src, dst |-> dst, indirect |-> indirect]

\* Copy::new
Copy_new(prof_uid, time_range, op_id, creator) ==
    [prof_uid |-> prof_uid, creator |-> creator, time_range |-> time_range,
     chan_id |-> None, op_id |-> op_id, copy_kind |-> None, copy_inst_infos |-> << >>]

\* State::create_copy and Record::CopyInfo: [b, copies]
copy_info(b, copies, op_id, create, ready, start, stop, fevent) ==
    LET Recorded(o, r) ==
            IF r.panic # "" THEN [b |-> [b EXCEPT !.panic = r.panic], copies |-> copies]
            ELSE IF fevent \in DOMAIN copies
            THEN [b |-> [b EXCEPT !.panic = "create_copy: assert !copies.contains_key"],
                  copies |-> copies]
            ELSE [b |-> update_last_time([b EXCEPT !.alloc = o.alloc, !.state = r.st], stop),
                  copies |-> MapInsert(copies, fevent,
                                 Copy_new(o.uid, new_full(create, ready, start, stop),
                                          op_id, None))]
        Based(o) ==
            IF o.panicked
            THEN [b |-> [b EXCEPT !.panic = "create_object: fevent already used"],
                  copies |-> copies]
            ELSE Recorded(o, record_event_node(b.state, fevent, "CopyEvent", o.uid, create,
                                               Some(stop), FALSE))
    IN  IF time_range_check(create, ready, start, stop) # ""
        THEN [b |-> [b EXCEPT !.panic = time_range_check(create, ready, start, stop)],
              copies |-> copies]
        ELSE Based(create_object(b.alloc, fevent))

\* Fill::new, as far as the records of the model fill it.
Fill_new(prof_uid, time_range, op_id, creator) ==
    [prof_uid |-> prof_uid, creator |-> creator, time_range |-> time_range,
     chan_id |-> None, op_id |-> op_id, fill_inst_infos |-> << >>]

\* State::create_fill and Record::FillInfo (creator and critical are None):
\* [b, fills]
fill_info(b, fills, op_id, create, ready, start, stop, fevent) ==
    LET Recorded(o, r) ==
            IF r.panic # "" THEN [b |-> [b EXCEPT !.panic = r.panic], fills |-> fills]
            ELSE IF fevent \in DOMAIN fills
            THEN [b |-> [b EXCEPT !.panic = "create_fill: assert !fills.contains_key"],
                  fills |-> fills]
            ELSE [b |-> update_last_time([b EXCEPT !.alloc = o.alloc, !.state = r.st], stop),
                  fills |-> MapInsert(fills, fevent,
                                Fill_new(o.uid, new_full(create, ready, start, stop),
                                         op_id, None))]
        Based(o) ==
            IF o.panicked
            THEN [b |-> [b EXCEPT !.panic = "create_object: fevent already used"],
                  fills |-> fills]
            ELSE Recorded(o, record_event_node(b.state, fevent, "FillEvent", o.uid, create,
                                               Some(stop), FALSE))
    IN  IF time_range_check(create, ready, start, stop) # ""
        THEN [b |-> [b EXCEPT !.panic = time_range_check(create, ready, start, stop)],
              fills |-> fills]
        ELSE Based(create_object(b.alloc, fevent))

\* Record::FillInstInfo: [b, fills]
fill_inst_info(b, fills, dst, dst_inst, fevent) ==
    LET Referred(r) ==
            IF fevent \notin DOMAIN fills
            THEN [b |-> [b EXCEPT !.panic = "FillInstInfo: fills.get_mut(fevent).unwrap()"],
                  fills |-> fills]
            ELSE [b |-> [b EXCEPT !.alloc = r.alloc],
                  fills |-> [fills EXCEPT ![fevent].fill_inst_infos =
                                Append(@, [dst |-> dst, dst_inst_uid |-> r.uid])]]
    IN  Referred(create_reference(b.alloc, dst_inst))

\* Record::CopyInstInfo (src_inst and dst_inst are None): MemID(0) is no memory.
copy_inst_info(b, copies, src, dst, fevent, indirect) ==
    IF fevent \notin DOMAIN copies
    THEN [b |-> [b EXCEPT !.panic = "CopyInstInfo: copies.get_mut(fevent).unwrap()"],
          copies |-> copies]
    ELSE [b |-> b,
          copies |-> [copies EXCEPT ![fevent].copy_inst_infos =
                         Append(@, CopyInstInfo_new(IF src # 0 THEN Some(src) ELSE None,
                                                    IF dst # 0 THEN Some(dst) ELSE None,
                                                    indirect))]]

\* slice_group_by's linear_group_by: the slice cut between every two
\* neighbours a, b for which the predicate Same(a, b) is false.
linear_group_by(s, Same(_, _)) ==
    LET cuts == KeysInOrder({i \in 1..Len(s) : i = Len(s) \/ ~Same(s[i], s[i + 1])})
    IN  [k \in 1..Len(cuts) |->
            SubSeq(s, IF k = 1 THEN 1 ELSE cuts[k - 1] + 1, cuts[k])]

\* Only the first run of the rows is split.
indirect_groups_first_only(rows) == <<linear_group_by(rows, LAMBDA i, j : i.indirect)[1]>>

\* The rows of one group go on with the next row only after an indirect row.
indirect_groups(rows) == linear_group_by(rows, LAMBDA i, j : i.indirect)

\* The channel of a group of rows: an Option, with the panic that stops it.
group_chan_id(indirect_src, indirect_dst, info) ==
    IF ~indirect_src /\ ~indirect_dst /\ info.src # None /\ info.dst # None
    THEN [chan_id |-> Some(new_copy(Unwrap(info.src), Unwrap(info.dst))), panic |-> ""]
    ELSE IF indirect_src /\ ~indirect_dst /\ info.dst # None
    THEN [chan_id |-> Some(new_gather(Unwrap(info.dst))), panic |-> ""]
    ELSE IF ~indirect_src /\ indirect_dst /\ info.src # None
    THEN [chan_id |-> Some(new_scatter(Unwrap(info.src))), panic |-> ""]
    ELSE IF indirect_src /\ indirect_dst
    THEN [chan_id |-> None,
          panic |-> "split_by_channel: unimplemented: can't assign GatherScatter channel"]
    ELSE [chan_id |-> None, panic |-> "split_by_channel: unreachable: invalid copy kind"]

CopyKind(indirect_src, indirect_dst) ==
    IF indirect_src THEN (IF indirect_dst THEN "GatherScatter" ELSE "Gather")
    ELSE (IF indirect_dst THEN "Scatter" ELSE "Copy")

\* The loop over the mem_groups of one indirect group. r is
\* [alloc, creator, result, panic]: creator is the creator of the copy's event
\* node, result the copies pushed so far.
RECURSIVE split_mem_groups(_, _, _, _, _)
split_mem_groups(copy, indirect, mem_groups, j, r) ==
    IF j > Len(mem_groups) \/ r.panic # "" THEN r
    ELSE LET indirect_src == indirect # None /\ Unwrap(indirect).src # None
             indirect_dst == indirect # None /\ Unwrap(indirect).dst # None
             Pushed(c, f) ==
                 IF c.panic # "" THEN [r EXCEPT !.panic = c.panic]
                 ELSE [alloc |-> f.alloc, creator |-> Some(f.uid), panic |-> "",
                       result |-> Append(r.result,
                           [copy EXCEPT
                               !.prof_uid = f.uid,
                               !.copy_kind = Some(CopyKind(indirect_src, indirect_dst)),
                               !.chan_id = c.chan_id,
                               !.copy_inst_infos =
                                   (IF indirect # None THEN <<Unwrap(indirect)>> ELSE << >>)
                                       \o mem_groups[j]])]
         IN  split_mem_groups(copy, indirect, mem_groups, j + 1,
                 Pushed(group_chan_id(indirect_src, indirect_dst, mem_groups[j][1]),
                        create_fresh(r.alloc)))

\* The loop over the indirect groups.
RECURSIVE split_indirect_groups(_, _, _, _)
split_indirect_groups(copy, groups, i, r) ==
    IF i > Len(groups) \/ r.panic # "" THEN r
    ELSE LET indirect == IF groups[i][1].indirect THEN Some(groups[i][1]) ELSE None
             rest == SubSeq(groups[i], IF indirect # None THEN 2 ELSE 1, Len(groups[i]))
         IN  split_indirect_groups(copy, groups, i + 1,
                 split_mem_groups(copy, indirect,
                     linear_group_by(rest, LAMBDA a, b : a.src = b.src /\ a.dst = b.dst),
                     1, r))

\* Copy::split_by_channel: [alloc, st, result, panic]
split_by_channel(alloc, st, copy, fevent) ==
    LET Split(r, node_index) ==
            [alloc |-> r.alloc, result |-> r.result, panic |-> r.panic,
             st |-> IF r.panic # "" THEN st
                    ELSE [st EXCEPT !.event_graph.nodes[node_index].creator = r.creator]]
    IN  IF copy.chan_id # None \/ copy.copy_kind # None
        THEN [alloc |-> alloc, st |-> st, result |-> << >>,
              panic |-> "split_by_channel: assert chan_id, copy_kind is_none"]
        ELSE IF fevent \notin DOMAIN st.event_lookup
        THEN [alloc |-> alloc, st |-> st, result |-> << >>,
              panic |-> "split_by_channel: event_lookup.get(fevent).unwrap()"]
        ELSE IF st.event_graph.nodes[st.event_lookup[fevent]].kind # "CopyEvent"
        THEN [alloc |-> alloc, st |-> st, result |-> << >>,
              panic |-> "split_by_channel: assert kind == CopyEvent"]
        ELSE Split(split_indirect_groups(copy, indirect_groups(copy.copy_inst_infos), 1,
                       [alloc |-> alloc, result |-> << >>, panic |-> "",
                        creator |-> st.event_graph.nodes[st.event_lookup[fevent]].creator]),
                   st.event_lookup[fevent])

\* The inner loop of the copy drain: each copy of the split goes to its channel.
RECURSIVE place_split(_, _, _)
place_split(st, split, i) ==
    IF i > Len(split) THEN st
    ELSE place_split(
             [st EXCEPT
                !.prof_uid_chan = MapInsert(@, split[i].prof_uid, Unwrap(split[i].chan_id)),
                !.chans = [find_chan_mut(@, Unwrap(split[i].chan_id)) EXCEPT
                              ![Unwrap(split[i].chan_id)] =
                                  add_chan_entry(@, split[i].prof_uid, split[i])]],
             split, i + 1)

\* The copy drain of process_records: b after the copies of fevents[i..].
RECURSIVE copies_into_chans(_, _, _, _)
copies_into_chans(b, copies, fevents, i) ==
    IF i > Len(fevents) \/ b.panic # "" THEN b
    ELSE IF copies[fevents[i]].copy_inst_infos = << >>
    THEN copies_into_chans(b, copies, fevents, i + 1)
    ELSE LET Placed(r) ==
                 IF r.panic # "" THEN [b EXCEPT !.panic = r.panic]
                 ELSE [b EXCEPT !.alloc = r.alloc, !.state = place_split(r.st, r.result, 1)]
         IN  copies_into_chans(
                 Placed(split_by_channel(b.alloc, b.state, copies[fevents[i]], fevents[i])),
                 copies, fevents, i + 1)

\* State::process_records after its loop over the records, copies included.
finish_records_and_copies(b, fills, copies) ==
    LET Finished(f) ==
            IF f.panic # "" THEN f
            ELSE copies_into_chans(f, copies, KeysInOrder(DOMAIN copies), 1)
    IN  Finished(finish_records(b, fills, copies))

(***************************************************************************)
(* SpecCopies: process_records is handed one CopyInfo and the rows of the  *)
(* copy, and returns.                                                      *)
(***************************************************************************)
MaxRows == 3

\* MemID(0) is no memory; 1 and 2 are the memories A and B.
MemIDs == {0, 1, 2}

InitCopies ==
    /\ AllocIdle
    /\ panic = ""
    /\ container = [type |-> "none"]
    /\ passes = << >>
    /\ first_run = None
    /\ state = NewState
    /\ locals = NewLocals
    /\ pending = {"CopyInfo"}

\* process_record has handled a copy record and left r = [b, copies].
HandedCopy(r) ==
    /\ prof_uid_allocator' = r.b.alloc
    /\ state' = r.b.state
    /\ locals' = [locals EXCEPT !.copies = r.copies]
    /\ panic' = r.b.panic
    /\ UNCHANGED <<has_prof_data, call, issued, fresh, parses>>
    /\ UNCHANGED levelVars

CopyInfo ==
    /\ Reading("CopyInfo")
    /\ HandedCopy(copy_info(Bundle, locals.copies, 1, 0, 0, 0, 1, 1))
    /\ pending' = pending \ {"CopyInfo"}

CopyInstInfo ==
    /\ panic = "" /\ ~has_prof_data
    /\ 1 \in DOMAIN locals.copies
    /\ Len(locals.copies[1].copy_inst_infos) < MaxRows
    /\ \E src \in MemIDs, dst \in MemIDs, indirect \in BOOLEAN :
          HandedCopy(copy_inst_info(Bundle, locals.copies, src, dst, 1, indirect))
    /\ UNCHANGED pending

\* The rest of process_records, once the loop over the records is through.
FinishCopies ==
    /\ panic = "" /\ ~has_prof_data
    /\ \E b \in {finish_records_and_copies(Bundle, locals.fills, locals.copies)} :
          /\ prof_uid_allocator' = b.alloc
          /\ state' = b.state
          /\ panic' = b.panic
          /\ has_prof_data' = (b.panic = "")
    /\ UNCHANGED <<locals, pending, call, issued, fresh, parses>>
    /\ UNCHANGED levelVars
    \* (locals is dropped when process_records returns; it stays readable here
    \* so that a property can name the rows the copy was given.)

NextCopies ==
    \/ CopyInfo
    \/ CopyInstInfo
    \/ FinishCopies

SpecCopies == InitCopies /\ [][NextCopies]_vars

(***************************************************************************)
(* Copy splitting: C17, C18                                                *)
(***************************************************************************)
\* The rows the copy was given.
Rows == IF 1 \in DOMAIN locals.copies THEN locals.copies[1].copy_inst_infos ELSE << >>

\* process_records has returned.
Returned == has_prof_data /\ panic = ""

\* The copies on the channels: <<chan_id, prof_uid>> of each entry.
ChannelEntries ==
    {ce \in (DOMAIN state.chans) \X (DOMAIN state.prof_uid_chan) :
        ce[2] \in DOMAIN state.chans[ce[1]].entries}

\* Every row is direct and names both memories.
DirectRows ==
    \A i \in DOMAIN Rows :
        ~Rows[i].indirect /\ Rows[i].src # None /\ Rows[i].dst # None

\* The groups of consecutive rows with the same (src, dst).
MemoryGroups == linear_group_by(Rows, LAMBDA a, b : a.src = b.src /\ a.dst = b.dst)

\* C17: a copy whose rows are all direct (one run, no indirection marker) is
\* split into exactly one channel entry per group of consecutive rows with
\* identical (src, dst), on ChanID::Copy(src, dst), holding the rows of the
\* group; rows [(A,A), (A,A), (B,B)] give two entries.
C17_OneEntryPerMemoryGroup ==
    (Returned /\ DirectRows) =>
        /\ Cardinality(ChannelEntries) = Len(MemoryGroups)
        /\ \A k \in DOMAIN MemoryGroups :
              \E ce \in ChannelEntries :
                  /\ ce[1] = new_copy(Unwrap(MemoryGroups[k][1].src),
                                      Unwrap(MemoryGroups[k][1].dst))
                  /\ state.chans[ce[1]].entries[ce[2]].copy_inst_infos = MemoryGroups[k]

\* The rows [(A,A), (A,A), (B,B)] were split into three entries: one per row.
ExampleSplitPerRow ==
    /\ Returned
    /\ Rows = <<CopyInstInfo_new(Some(1), Some(1), FALSE),
                CopyInstInfo_new(Some(1), Some(1), FALSE),
                CopyInstInfo_new(Some(2), Some(2), FALSE)>>
    /\ Cardinality(ChannelEntries) = 3
    /\ Cardinality(DOMAIN state.chans[new_copy(1, 1)].entries) = 2

\* Row i is an indirection marker with both src and dst memory populated.
GatherScatterMarker(i) ==
    Rows[i].indirect /\ Rows[i].src # None /\ Rows[i].dst # None

\* C18: a copy whose rows contain an indirection marker with both src and dst
\* populated makes process_records fail, wherever the marker sits in the rows:
\* process_records never returns from such a copy.
C18_GatherScatterFails ==
    has_prof_data => \A i \in DOMAIN Rows : ~GatherScatterMarker(i)

\* process_records returned from a copy whose marker with both memories
\* follows a gather marker, and made a Gather entry of the three rows.
MarkerAfterMarkerReturned ==
    /\ Returned
    /\ Rows = <<CopyInstInfo_new(Some(1), None, TRUE),
                CopyInstInfo_new(Some(1), Some(1), TRUE),
                CopyInstInfo_new(Some(1), Some(2), FALSE)>>
    /\ Cardinality(ChannelEntries) = 2
    /\ DOMAIN state.chans = {new_gather(1), new_gather(2)}

(***************************************************************************)
(* The split as a partition of the rows: C39                               *)
(***************************************************************************)
\* The ProfUIDs of the sub-copies on the channels; ProfUIDs are handed out in
\* ascending order, so this is also the order the sub-copies were emitted in.
EmittedUIDs == KeysInOrder({ce[2] : ce \in ChannelEntries})

SubCopy(prof_uid) == state.chans[state.prof_uid_chan[prof_uid]].entries[prof_uid]

\* The rows of the emitted sub-copies, one sub-copy after the other.
EmittedRows ==
    Flatten([k \in 1..Len(EmittedUIDs) |-> SubCopy(EmittedUIDs[k]).copy_inst_infos])

\* The rows that are no indirection markers, in their order.
NonMarkers(rows) == SelectSeq(rows, LAMBDA row : ~row.indirect)

\* The event node of the copy.
CopyEventNode == state.event_graph.nodes[state.event_lookup[1]]

\* C39: split_by_channel partitions the rows of a copy: the non-marker rows of
\* the emitted sub-copies, read in emission order, are the non-marker rows of
\* the original copy in their order (each in exactly one sub-copy); every
\* sub-copy has a ProfUID of its own that is not the ProfUID of the draft; and
\* the CopyEvent node's creator names the last sub-copy emitted.
C39_SplitPartitionsRows ==
    (Returned /\ Rows # << >>) =>
        /\ NonMarkers(EmittedRows) = NonMarkers(Rows)
        /\ \A ce1 \in ChannelEntries, ce2 \in ChannelEntries :
              ce1[2] = ce2[2] => ce1 = ce2
        /\ \A k \in DOMAIN EmittedUIDs :
              /\ EmittedUIDs[k] # locals.copies[1].prof_uid
              /\ state.prof_uid_chan[EmittedUIDs[k]] = Unwrap(SubCopy(EmittedUIDs[k]).chan_id)
              /\ SubCopy(EmittedUIDs[k]).prof_uid = EmittedUIDs[k]
        /\ EmittedUIDs # << >> =>
              CopyEventNode.creator = Some(EmittedUIDs[Len(EmittedUIDs)])

\* process_records returned from a copy of three rows, a marker between two
\* direct rows: two sub-copies on two channels, the node names the second.
C39_Witness ==
    /\ Returned
    /\ Len(Rows) = 3 /\ ~Rows[1].indirect /\ Rows[2].indirect /\ ~Rows[3].indirect
    /\ Len(EmittedUIDs) = 2
    /\ Cardinality(DOMAIN state.chans) = 2
    /\ CopyEventNode.creator = Some(EmittedUIDs[2])
    /\ CopyEventNode.creator # Some(locals.copies[1].prof_uid)

\* A copy whose only row is a marker is split into nothing: the node keeps
\* naming the draft.
LoneMarkerEmitsNothing ==
    /\ Returned
    /\ Len(Rows) = 1 /\ Rows[1].indirect
    /\ EmittedUIDs = << >>
    /\ CopyEventNode.creator = Some(locals.copies[1].prof_uid)

(***************************************************************************)
(* SpecReconcile: one task of a processor makes calls and waits on events, *)
(* and the processor is sorted.                                            *)
(***************************************************************************)
MaxCalls == 2
MaxWaits == 1

\* The times the calls and the waits of the task start and stop at.
CallTimes == {0, 1, 2}

\* The ProfUID of the task.
TaskUID == 1

InitReconcile ==
    /\ AllocIdle
    /\ panic = ""
    /\ container = [type |-> "Proc",
                    c |-> create_proc_entry(NewProc(Some("CPU")), TaskUID,
                              NewProcEntry(Some(1), None, "Task", new_full(0, 0, 0, 2), None))]
    /\ passes = << >>
    /\ first_run = None
    /\ state = NewState
    /\ locals = NewLocals
    /\ pending = {}

\* State::create_runtime_call: a call made by the task.
TaskCreateRuntimeCall ==
    /\ Filling
    /\ NumEntries < 1 + MaxCalls
    /\ \E start \in CallTimes, stop \in CallTimes :
          /\ start <= stop
          /\ container' = [container EXCEPT !.c =
                 create_proc_entry(@, NextUID,
                     NewProcEntry(None, None, "RuntimeCall", new_call(start, stop),
                                  Some(TaskUID)))]
    /\ UNCHANGED <<prof_uid_allocator, has_prof_data, panic, call, issued, fresh, parses,
                   passes, first_run>>
    /\ UNCHANGED ingestVars

\* Waiters::add_wait_interval (Record::TaskWaitInfo): the task waits on one
\* more event. The events are numbered as the waits are recorded.
TaskAddWaitInterval ==
    /\ Filling
    /\ Len(container.c.entries[TaskUID].waiters) < MaxWaits
    /\ \E start \in CallTimes, end \in CallTimes :
          /\ start <= end
          /\ container' = [container EXCEPT !.c.entries[TaskUID].waiters =
                 Append(@, from_event(start, start, end, Len(@) + 1, None))]
    /\ UNCHANGED <<prof_uid_allocator, has_prof_data, panic, call, issued, fresh, parses,
                   passes, first_run>>
    /\ UNCHANGED ingestVars

\* Proc::sort_time_range, which starts with sort_calls_and_waits.
ProcSortTimeRange ==
    /\ Filling
    /\ \E r \in {proc_sort_time_range(container.c)} :
          /\ container' = [container EXCEPT !.c = r.c]
          /\ panic' = r.panic
    /\ passes' = Append(passes, "sort_time_range")
    /\ UNCHANGED <<prof_uid_allocator, has_prof_data, call, issued, fresh, parses, first_run>>
    /\ UNCHANGED ingestVars

NextReconcile ==
    \/ TaskCreateRuntimeCall
    \/ TaskAddWaitInterval
    \/ ProcSortTimeRange

SpecReconcile == InitReconcile /\ [][NextReconcile]_vars

(***************************************************************************)
(* Caller/waiter reconciliation: C19                                       *)
(***************************************************************************)
\* The calls recorded against the task.
CallsOfTask ==
    {u \in DOMAIN container.c.entries : container.c.entries[u].creator = Some(TaskUID)}

CallStart(u) == Unwrap(container.c.entries[u].time_range.start)

CallStop(u) == Unwrap(container.c.entries[u].time_range.stop)

\* The calls whose [start, stop] contains the wait.
Containing(wait) ==
    {u \in CallsOfTask : CallStart(u) <= wait.start /\ wait.end <= CallStop(u)}

\* The entries that hold the event-wait after the sort.
HoldersAfter(wait) ==
    {u \in DOMAIN container'.c.entries :
        \E i \in DOMAIN container'.c.entries[u].waiters :
            LET held == container'.c.entries[u].waiters[i]
            IN  /\ held.event = wait.event /\ held.callee = None
                /\ held.start = wait.start /\ held.ready = wait.ready
                /\ held.end = wait.end}

\* Proc::sort_time_range runs to its end.
Reconciling == passes = << >> /\ passes' = <<"sort_time_range">> /\ panic' = ""

\* C19: reconciliation moves each event-wait of a task into a shortest of the
\* calls recorded against the task whose [start, stop] contains
\* [wait.start, wait.end], and leaves it on the task when no call contains it.
\* With one call that contains the one event-wait, the task ends with exactly
\* one wait, a callee-wait that points at the call, and the call holds the
\* event-wait.
C19_WaitMovesToShortestCall ==
    [][Reconciling =>
         /\ \A i \in DOMAIN container.c.entries[TaskUID].waiters :
               LET wait == container.c.entries[TaskUID].waiters[i]
               IN  IF Containing(wait) = {}
                   THEN HoldersAfter(wait) = {TaskUID}
                   ELSE \E u \in Containing(wait) :
                           /\ HoldersAfter(wait) = {u}
                           /\ \A v \in Containing(wait) :
                                 CallStop(u) - CallStart(u) <= CallStop(v) - CallStart(v)
         /\ \A u \in CallsOfTask :
               (/\ CallsOfTask = {u}
                /\ Len(container.c.entries[TaskUID].waiters) = 1
                /\ Containing(container.c.entries[TaskUID].waiters[1]) = {u})
               => /\ container'.c.entries[TaskUID].waiters =
                        <<from_caller(CallStart(u), CallStop(u), u)>>
                  /\ container'.c.entries[u].waiters =
                        container.c.entries[TaskUID].waiters]_vars

\* The processor was sorted with two calls of different length that contain a
\* wait of the task: the shorter call holds it.
C19_Witness ==
    /\ passes = <<"sort_time_range">> /\ panic = ""
    /\ \E u, v \in DOMAIN container.c.entries \ {TaskUID} :
          /\ CallStop(u) - CallStart(u) < CallStop(v) - CallStart(v)
          /\ \E i \in DOMAIN container.c.entries[u].waiters :
                LET held == container.c.entries[u].waiters[i]
                IN  /\ held.event # None
                    /\ CallStart(v) <= held.start /\ held.end <= CallStop(v)

\* The processor was sorted with a call and a wait of the task that the call
\* does not contain: the task still holds the wait.
WaitLeftOnTask ==
    /\ passes = <<"sort_time_range">> /\ panic = ""
    /\ Cardinality(DOMAIN container.c.entries) > 1
    /\ \E i \in DOMAIN container.c.entries[TaskUID].waiters :
          container.c.entries[TaskUID].waiters[i].event # None

(***************************************************************************)
(* Calls as waits of their callers: C33                                    *)
(***************************************************************************)
CallSize(u) == CallStop(u) - CallStart(u)

\* The other calls of the task whose [start, stop] contains that of c.
Enclosing(c) ==
    {v \in CallsOfTask \ {c} : CallStart(v) <= CallStart(c) /\ CallStop(c) <= CallStop(v)}

\* v comes after c when the calls are sorted by size, calls of one size
\* staying in the order of their ProfUIDs.
SortedAfter(c, v) == CallSize(c) < CallSize(v) \/ (CallSize(c) = CallSize(v) /\ c < v)

\* The places <<entry, index>> where a callee-wait that refers to c sits
\* after the sort.
CalleeWaitsOf(c) ==
    {ui \in UNION {{<<u, i>> : i \in DOMAIN container'.c.entries[u].waiters} :
                      u \in DOMAIN container'.c.entries} :
        container'.c.entries[ui[1]].waiters[ui[2]].callee = Some(c)}

\* The one callee-wait of c spans [c.start, c.stop] and sits on the entry
\* holder, which c.creator names.
CalleeWaitOn(c, holder) ==
    /\ Cardinality(CalleeWaitsOf(c)) = 1
    /\ \A ui \in CalleeWaitsOf(c) :
          /\ ui[1] = holder
          /\ container'.c.entries[ui[1]].waiters[ui[2]].start = CallStart(c)
          /\ container'.c.entries[ui[1]].waiters[ui[2]].end = CallStop(c)
    /\ container'.c.entries[c].creator = Some(holder)

\* Every waiter list that holds a callee-wait is sorted by start.
CallerWaitsSorted ==
    \A u \in DOMAIN container'.c.entries :
        LET ws == container'.c.entries[u].waiters
        IN  (\E i \in DOMAIN ws : ws[i].callee # None) =>
                \A i, j \in DOMAIN ws : i < j => ws[i].start <= ws[j].start

EqualCallsNested ==
    /\ passes = <<"sort_time_range">> /\ panic = ""
    /\ \E c, v \in DOMAIN container.c.entries \ {TaskUID} :
          /\ c < v
          /\ CallStart(c) = CallStart(v) /\ CallStop(c) = CallStop(v)
          /\ container.c.entries[c].creator = Some(v)
          /\ container.c.entries[v].creator = Some(TaskUID)

(***************************************************************************)
(* SpecNesting: one task makes calls that may overlap, and the processor   *)
(* is sorted.                                                              *)
(***************************************************************************)
MaxNestedCalls == 3

\* The [start, stop] of the calls: nested, apart, sharing an endpoint, and
\* overlapping without nesting.
NestedRanges ==
    {<<0, 5>>, <<0, 3>>, <<1, 3>>, <<2, 4>>, <<2, 5>>, <<3, 3>>, <<3, 5>>, <<4, 5>>}

NestedCallKinds == {"RuntimeCall", "MapperCall"}

InitNesting ==
    /\ AllocIdle
    /\ panic = ""
    /\ container = [type |-> "Proc",
                    c |-> create_proc_entry(NewProc(Some("CPU")), TaskUID,
                              NewProcEntry(Some(1), None, "Task", new_full(0, 0, 0, 5), None))]
    /\ passes = << >>
    /\ first_run = None
    /\ state = NewState
    /\ locals = NewLocals
    /\ pending = {}

\* State::create_runtime_call, create_mapper_call: a call made by the task.
NestedCreateCall ==
    /\ Filling
    /\ NumEntries < 1 + MaxNestedCalls
    /\ \E r \in NestedRanges, kind \in NestedCallKinds :
          /\ kind = "MapperCall" => NumEntries = 1
          /\ container' = [container EXCEPT !.c =
                 create_proc_entry(@, NextUID,
                     NewProcEntry(None, None, kind, new_call(r[1], r[2]), Some(TaskUID)))]
    /\ UNCHANGED <<prof_uid_allocator, has_prof_data, panic, call, issued, fresh, parses,
                   passes, first_run>>
    /\ UNCHANGED ingestVars

\* Proc::sort_time_range, which starts with sort_calls_and_waits.
NestedSortTimeRange ==
    /\ Filling
    /\ \E r \in {proc_sort_time_range(container.c)} :
          /\ container' = [container EXCEPT !.c = r.c]
          /\ panic' = r.panic
    /\ passes' = Append(passes, "sort_time_range")
    /\ UNCHANGED <<prof_uid_allocator, has_prof_data, call, issued, fresh, parses, first_run>>
    /\ UNCHANGED ingestVars

NextNesting ==
    \/ NestedCreateCall
    \/ NestedSortTimeRange

SpecNesting == InitNesting /\ [][NextNesting]_vars

(***************************************************************************)
(* Calls that overlap without nesting: C34                                 *)
(***************************************************************************)
\* The calls c and v share more than one point in time and neither contains
\* the other.
PartlyOverlapping(c, v) ==
    /\ c # v
    /\ CallStart(c) < CallStop(v) /\ CallStart(v) < CallStop(c)
    /\ c \notin Enclosing(v) /\ v \notin Enclosing(c)

\* C34: when two calls of a task overlap in time without one containing the
\* other, sort_time_range aborts, whatever other calls the task has made and
\* wherever the two fall when the calls are sorted by duration.
C34_OverlappingCallsAbort ==
    [][(/\ passes = << >> /\ passes' = <<"sort_time_range">>
        /\ \E c, v \in CallsOfTask : PartlyOverlapping(c, v))
          => panic' # ""]_vars

\* The sort has aborted on three calls: the shortest overlaps the last in
\* duration order without nesting, and the call between them contains the
\* shortest, so the shortest is never compared with the last.
C34_Witness ==
    /\ passes = <<"sort_time_range">>
    /\ panic = "sort_calls_and_waits: calls partially overlap"
    /\ \E c, v, w \in CallsOfTask :
          /\ SortedAfter(c, v) /\ SortedAfter(v, w)
          /\ v \in Enclosing(c)
          /\ PartlyOverlapping(c, w)

\* The sort has returned from three calls that nest or only touch.
NestedCallsSorted ==
    /\ passes = <<"sort_time_range">> /\ panic = ""
    /\ Cardinality(DOMAIN container.c.entries) = 4
    /\ \E c, v \in DOMAIN container.c.entries \ {TaskUID} :
          c # v /\ CallStop(c) = CallStart(v) /\ CallStart(c) < CallStop(c)

(***************************************************************************)
(* Dynamic memory capacity: C20                                            *)
(***************************************************************************)
\* The instances of the memory that are live at time t, the ends included.
LiveAt(t) ==
    {u \in DOMAIN container.c.insts :
        /\ Unwrap(container.c.insts[u].time_range.ready) <= t
        /\ t <= Unwrap(container.c.insts[u].time_range.stop)}

\* The total size of a set of instances.
RECURSIVE TotalSize(_)
TotalSize(S) ==
    IF S = {} THEN 0
    ELSE LET u == CHOOSE u \in S : TRUE
         IN  Unwrap(container.c.insts[u].size) + TotalSize(S \ {u})

\* The largest total size of instances live at one time, at least 1.
PeakLiveSize ==
    LET peaks == {TotalSize(LiveAt(t)) : t \in Times} \cup {1}
    IN  CHOOSE p \in peaks : \A q \in peaks : q <= p

\* C20: a memory declared with capacity zero has, after sort_time_range, the
\* largest total size of instances that are live at the same time (at least 1)
\* as its capacity.
C20_CapacityIsPeakLiveSize ==
    (Levelled /\ container.type = "Mem") => container.c.capacity = PeakLiveSize

\* A sorted memory whose capacity is the sum of the sizes of two instances
\* that were never live together.
CapacityIsSumOfSizes ==
    /\ Levelled /\ container.type = "Mem"
    /\ DOMAIN container.c.insts = {1, 2}
    /\ Unwrap(container.c.insts[1].time_range.stop)
          < Unwrap(container.c.insts[2].time_range.ready)
    /\ container.c.capacity = TotalSize({1, 2})
    /\ container.c.capacity = 2


(***************************************************************************)
(* The event graph: the records that declare events, in any order.         *)
(***************************************************************************)
\* How many event records process_records reads.
MaxEventRecords == 2

\* Plain events, and the phases 1 to 3 of one barrier.
PlainEvents == {1, 2}

BarrierPhases == {33, 34, 35}

PerformedTimes == {5, 10}

\* The kind, deduplicate flag and trigger time record_event_node is called
\* with by the handlers of EventMergerInfo, ReservationAcquireInfo,
\* EventTriggerInfo and ExternalEventInfo.
RecordCalls ==
    {<<"MergeEvent", TRUE, None>>, <<"ReservationAcquire", FALSE, None>>,
     <<"TriggerEvent", TRUE, None>>, <<"TriggerEvent", FALSE, None>>,
     <<"ExternalEvent", FALSE, Some(10)>>}

\* The preconditions of an EventMergerInfo or CompletionQueueInfo record.
MergedPreconditions == {<<None, None>>, <<Some(2), None>>, <<Some(2), Some(34)>>}

InitEvents ==
    /\ AllocIdle
    /\ panic = ""
    /\ container = [type |-> "none"]
    /\ passes = << >>
    /\ first_run = None
    /\ state = NewState
    /\ locals = NewLocals
    /\ pending = 1..MaxEventRecords

\* process_records is in its loop and has a record left to read.
ReadingEventRecords == panic = "" /\ pending # {} /\ call.op # "compute_critical_paths"

\* The call op(arg) has returned val and left the bundle b.
EventHanded(op, arg, val, b) ==
    /\ prof_uid_allocator' = b.alloc
    /\ state' = b.state
    /\ panic' = b.panic
    /\ call' = [op |-> op, arg |-> arg, val |-> val]
    /\ pending' = pending \ {CHOOSE k \in pending : \A j \in pending : k <= j}
    /\ UNCHANGED <<has_prof_data, issued, fresh, parses>>
    /\ UNCHANGED levelVars

\* State::find_event_node(event)
EventFindEventNode ==
    /\ ReadingEventRecords
    /\ \E event \in PlainEvents \cup BarrierPhases :
          \E f \in {find_event_node(state, event)} :
              /\ EventHanded("find_event_node", <<event>>, f.index,
                             [Bundle EXCEPT !.state = f.st])
              /\ UNCHANGED locals

\* State::record_event_node(fevent, kind, creator, creation_time, trigger_time,
\* deduplicate)
EventRecordEventNode ==
    /\ ReadingEventRecords
    /\ \E fevent \in PlainEvents, kd \in RecordCalls, creator \in 1..2,
          performed \in PerformedTimes :
          \E r \in {record_event_node(state, fevent, kd[1], creator, performed, kd[3],
                                      kd[2])} :
              /\ EventHanded("record_event_node",
                             <<fevent, kd[1], creator, performed, kd[3], kd[2]>>, r.index,
                             [Bundle EXCEPT !.state = r.st, !.panic = r.panic])
              /\ UNCHANGED locals

\* process_record has handled a record and left b.
EventRecordHanded(op, arg, b) ==
    /\ EventHanded(op, arg, 0, b)
    /\ locals' = [locals EXCEPT !.insts = b.insts, !.profs = b.profs]

EventTaskInfo ==
    /\ ReadingEventRecords
    /\ \E t \in PerformedTimes :
          EventRecordHanded("TaskInfo", <<1>>, task_info(Bundle, 1, 1, t, t, t, t, 1))

EventCopyInfo ==
    /\ ReadingEventRecords
    /\ \E r \in {copy_info(Bundle, locals.copies, 1, 5, 5, 5, 10, 1)} :
          /\ EventHanded("CopyInfo", <<1>>, 0, r.b)
          /\ locals' = [locals EXCEPT !.copies = r.copies]

EventFillInfo ==
    /\ ReadingEventRecords
    /\ \E r \in {fill_info(Bundle, locals.fills, 1, 5, 5, 5, 10, 1)} :
          /\ EventHanded("FillInfo", <<1>>, 0, r.b)
          /\ locals' = [locals EXCEPT !.fills = r.fills]

EventInstTimelineInfo ==
    /\ ReadingEventRecords
    /\ EventRecordHanded("InstTimelineInfo", <<1>>,
                         inst_timeline_info(Bundle, 1, 1, 1, 5, 5, 10, 2))

EventReservationAcquireInfo ==
    /\ ReadingEventRecords
    /\ \E precondition \in {None, Some(2)}, performed \in PerformedTimes :
          EventRecordHanded("ReservationAcquireInfo", <<1, precondition>>,
                            reservation_acquire_info(Bundle, 1, 2, precondition, performed))

EventEventMergerInfo ==
    /\ ReadingEventRecords
    /\ \E pp \in MergedPreconditions, performed \in PerformedTimes :
          EventRecordHanded("EventMergerInfo", <<1, pp[1], pp[2]>>,
                            event_merger_info(Bundle, 1, 2, performed, pp[1], pp[2]))

EventCompletionQueueInfo ==
    /\ ReadingEventRecords
    /\ \E pp \in MergedPreconditions, performed \in PerformedTimes :
          EventRecordHanded("CompletionQueueInfo", <<1, pp[1], pp[2]>>,
                            completion_queue_info(Bundle, 1, 2, performed, pp[1], pp[2]))

\* Record::BarrierArrivalInfo: a handshake when fevent is the barrier itself.
EventBarrierArrivalInfo ==
    /\ ReadingEventRecords
    /\ \E result \in {33, 34}, precondition \in {None, Some(2)},
          performed \in PerformedTimes :
          \E fevent \in {result, 1, 2} :
              EventRecordHanded("BarrierArrivalInfo", <<result, fevent, performed>>,
                  barrier_arrival_info(Bundle, result, fevent, precondition, performed))

\* State::compute_critical_paths, once the records are read.
EventComputeCriticalPaths ==
    /\ panic = "" /\ call.op # "compute_critical_paths"
    /\ \E r \in {compute_critical_paths(state)} :
          /\ state' = r.st
          /\ panic' = r.panic
    /\ call' = [op |-> "compute_critical_paths", arg |-> <<>>, val |-> 0]
    /\ UNCHANGED <<prof_uid_allocator, has_prof_data, issued, fresh, parses, locals, pending>>
    /\ UNCHANGED levelVars

NextEvents ==
    \/ EventFindEventNode
    \/ EventRecordEventNode
    \/ EventTaskInfo
    \/ EventCopyInfo
    \/ EventFillInfo
    \/ EventInstTimelineInfo
    \/ EventReservationAcquireInfo
    \/ EventEventMergerInfo
    \/ EventCompletionQueueInfo
    \/ EventBarrierArrivalInfo
    \/ EventComputeCriticalPaths

SpecEvents == InitEvents /\ [][NextEvents]_vars

(***************************************************************************)
(* Declaring and finding events: C24 to C26                                *)
(***************************************************************************)
\* The node an event is looked up to.
NodeOf(st, event) == st.event_graph.nodes[st.event_lookup[event]]

\* record_event_node is called for an event that is present as a placeholder.
Promoting ==
    /\ call'.op = "record_event_node"
    /\ call'.arg[1] \in DOMAIN state.event_lookup
    /\ NodeOf(state, call'.arg[1]).kind = "UnknownEvent"

\* C24: record_event_node on an event present as an UnknownEvent placeholder
\* promotes it in place, whatever the deduplicate flag: it does not abort, the
\* event keeps its node, no edge and no other node changes, and the node's
\* kind, creator, creation_time and trigger_time are those of the call.
C24_PlaceholderPromotedInPlace ==
    [][Promoting =>
          /\ panic' = ""
          /\ state'.event_lookup = state.event_lookup
          /\ call'.val = state.event_lookup[call'.arg[1]]
          /\ state'.event_graph.edges = state.event_graph.edges
          /\ DOMAIN state'.event_graph.nodes = DOMAIN state.event_graph.nodes
          /\ \A v \in DOMAIN state.event_graph.nodes :
                state'.event_graph.nodes[v] =
                    IF v = state.event_lookup[call'.arg[1]]
                    THEN [kind |-> call'.arg[2], creator |-> Some(call'.arg[3]),
                          creation_time |-> Some(call'.arg[4]),
                          trigger_time |-> call'.arg[5], critical |-> None]
                    ELSE state.event_graph.nodes[v]]_vars

\* record_event_node, called with deduplicate false, has returned the node of
\* an event that was a placeholder with an edge from it to a merge event.
C24_Witness ==
    /\ call.op = "record_event_node" /\ panic = ""
    /\ call.arg[6] = FALSE
    /\ NodeOf(state, call.arg[1]).kind = call.arg[2]
    /\ \E i \in DOMAIN state.event_graph.edges :
          /\ state.event_graph.edges[i][1] = call.val
          /\ state.event_graph.nodes[state.event_graph.edges[i][2]].kind = "MergeEvent"

\* record_event_node is called for an event that is present and declared.
Redeclaring ==
    /\ call'.op = "record_event_node"
    /\ call'.arg[1] \in DOMAIN state.event_lookup
    /\ NodeOf(state, call'.arg[1]).kind # "UnknownEvent"

\* The records whose handler declares its event with deduplicate false.
DeclaredOnce ==
    {"TaskInfo", "CopyInfo", "FillInfo", "InstTimelineInfo", "ReservationAcquireInfo"}

\* C25: record_event_node for an event present with a kind other than
\* UnknownEvent changes nothing and returns the event's node when deduplicate
\* is true and kind and creator match, and aborts when deduplicate is false
\* (or kind or creator differ); so a TaskInfo, CopyInfo, FillInfo,
\* InstTimelineInfo or ReservationAcquireInfo record for an event that is
\* already declared aborts ingest.
C25_SecondDeclaration ==
    [][/\ Redeclaring =>
             IF /\ call'.arg[6]
                /\ NodeOf(state, call'.arg[1]).kind = call'.arg[2]
                /\ NodeOf(state, call'.arg[1]).creator = Some(call'.arg[3])
             THEN /\ panic' = ""
                  /\ state' = state
                  /\ call'.val = state.event_lookup[call'.arg[1]]
             ELSE panic' # ""
       /\ (/\ call'.op \in DeclaredOnce
           /\ 1 \in DOMAIN state.event_lookup
           /\ NodeOf(state, 1).kind # "UnknownEvent") => panic' # ""]_vars

\* record_event_node, called with deduplicate true and another creation time
\* for the one event that is declared, has returned.
C25_Witness ==
    /\ call.op = "record_event_node" /\ panic = ""
    /\ call.arg[6] = TRUE
    /\ Len(state.event_graph.nodes) = 1
    /\ NodeOf(state, call.arg[1]).kind = "MergeEvent"
    /\ NodeOf(state, call.arg[1]).creation_time # Some(call.arg[4])

\* Ingest has aborted on the second of two records of the same event.
SecondRecordAborted ==
    /\ call.op \in DeclaredOnce /\ panic # ""
    /\ 1 \in DOMAIN state.event_lookup

\* find_event_node is called.
Finding == call'.op = "find_event_node"

\* The graph of st has an edge from the node of event a to the node of event b.
EdgeBetween(st, a, b) ==
    /\ a \in DOMAIN st.event_lookup /\ b \in DOMAIN st.event_lookup
    /\ \E i \in DOMAIN st.event_graph.edges :
          st.event_graph.edges[i] = <<st.event_lookup[a], st.event_lookup[b]>>

\* The events find_event_node gave a node to.
GivenNodes == DOMAIN state'.event_lookup \ DOMAIN state.event_lookup

\* C26: find_event_node(e) returns the node of an event that is in the lookup
\* and changes nothing; for an event that is not, it appends an UnknownEvent
\* placeholder and keeps every node and edge there was. The only edges it adds
\* are, for each barrier phase of generation > 1 it gave a node to, one from
\* the node of the previous phase (id - 1), which it gave a node to when it
\* had none; so the phases 1..g of a barrier it was called with form a chain,
\* and a barrier of generation 1 or a plain event gets no edge.
C26_FindsOrChains ==
    [][Finding =>
          /\ panic' = ""
          /\ call'.val = state'.event_lookup[call'.arg[1]]
          /\ \A x \in DOMAIN state.event_lookup :
                state'.event_lookup[x] = state.event_lookup[x]
          /\ \A v \in DOMAIN state.event_graph.nodes :
                state'.event_graph.nodes[v] = state.event_graph.nodes[v]
          /\ Len(state'.event_graph.nodes) = Len(state.event_graph.nodes) + Cardinality(GivenNodes)
          /\ \A x \in GivenNodes : NodeOf(state', x) = EventEntry_new("UnknownEvent", None, None, None)
          /\ \A x, y \in GivenNodes : x # y => state'.event_lookup[x] # state'.event_lookup[y]
          /\ IF call'.arg[1] \in DOMAIN state.event_lookup
             THEN state' = state
             ELSE /\ call'.val = Len(state.event_graph.nodes) + 1
                  /\ call'.arg[1] \in GivenNodes
                  /\ \A x \in GivenNodes : x \in BarrierPhases \/ x = call'.arg[1]
          /\ SubSeq(state'.event_graph.edges, 1, Len(state.event_graph.edges))
                = state.event_graph.edges
          /\ Len(state'.event_graph.edges)
                = Len(state.event_graph.edges) + Cardinality(GivenNodes \ {1, 2, 33})
          /\ \A x \in GivenNodes \ {1, 2, 33} : EdgeBetween(state', x - 1, x)
          /\ call'.arg[1] \in BarrierPhases =>
                \A x \in BarrierPhases \ {33} :
                    x <= call'.arg[1] => EdgeBetween(state', x - 1, x)]_vars

\* find_event_node, called with phase 3 of a barrier no phase of which had a
\* node, has returned: the graph is the chain of the three placeholders.
C26_Witness ==
    /\ call.op = "find_event_node" /\ call.arg[1] = 35 /\ call.val = 1
    /\ Len(state.event_graph.nodes) = 3 /\ Len(state.event_graph.edges) = 2
    /\ EdgeBetween(state, 33, 34) /\ EdgeBetween(state, 34, 35)
    /\ \A v \in 1..3 : state.event_graph.nodes[v].kind = "UnknownEvent"

(***************************************************************************)
(* Records that are read more than once: C27 and C28                       *)
(***************************************************************************)
\* How many edges lead from the node of event a to the node of event b.
EdgesBetween(st, a, b) ==
    Cardinality({i \in DOMAIN st.event_graph.edges :
                    st.event_graph.edges[i] = <<st.event_lookup[a], st.event_lookup[b]>>})

\* C27: once an EventMergerInfo or CompletionQueueInfo record is processed,
\* however often the same record was processed before, there is exactly one
\* edge from each of its preconditions to the node of its result.
C27_OneEdgePerPrecondition ==
    (call.op \in {"EventMergerInfo", "CompletionQueueInfo"} /\ panic = "") =>
        \A k \in 2..3 :
            call.arg[k] # None => EdgesBetween(state, Unwrap(call.arg[k]), call.arg[1]) = 1

\* The EventMergerInfo record of event 1 with the precondition 2 was processed
\* twice and left two edges from the node of 2 to the node of 1.
MergerReadTwiceDoublesEdge ==
    /\ call.op = "EventMergerInfo" /\ panic = ""
    /\ call.arg = <<1, Some(2), None>>
    /\ Len(state.event_graph.nodes) = 2
    /\ state.event_graph.edges = <<<<2, 1>>, <<2, 1>>>>

\* The time a barrier's node holds for its arrivals: an external handshake's
\* is in trigger_time when the handshake promoted a placeholder and in
\* creation_time when it made the node.
ArrivalTime(node) ==
    IF node.kind = "ExternalHandshake" /\ node.trigger_time # None
    THEN node.trigger_time ELSE node.creation_time

\* A BarrierArrivalInfo record <<result, fevent, performed>> is processed for a
\* barrier that had only arrivals of the record's sort, if any: it has no
\* node, a placeholder, or the node of such arrivals.
Arriving(sort) ==
    /\ call'.op = "BarrierArrivalInfo"
    /\ (call'.arg[1] = call'.arg[2]) = (sort = "ExternalHandshake")
    /\ call'.arg[1] \in DOMAIN state.event_lookup =>
          NodeOf(state, call'.arg[1]).kind \in {"UnknownEvent", sort}

\* Had the barrier of the record an arrival at or after the record's?
ArrivedLater(sort) ==
    /\ call'.arg[1] \in DOMAIN state.event_lookup
    /\ NodeOf(state, call'.arg[1]).kind = sort
    /\ Unwrap(ArrivalTime(NodeOf(state, call'.arg[1]))) >= call'.arg[3]

\* What C28 says of the arrivals of one sort.
LatestArrivalKept(sort) ==
    Arriving(sort) =>
        /\ panic' = ""
        /\ NodeOf(state', call'.arg[1]).kind = sort
        /\ IF ArrivedLater(sort)
           THEN /\ ArrivalTime(NodeOf(state', call'.arg[1]))
                      = ArrivalTime(NodeOf(state, call'.arg[1]))
                /\ NodeOf(state', call'.arg[1]).creator
                      = NodeOf(state, call'.arg[1]).creator
           ELSE /\ ArrivalTime(NodeOf(state', call'.arg[1])) = Some(call'.arg[3])
                /\ sort = "ArriveBarrier" =>
                      NodeOf(state', call'.arg[1]).creator
                          = Some(prof_uid_allocator'.fevents[call'.arg[2]])

\* C28: a BarrierArrivalInfo record for a barrier that had only arrivals of
\* the same sort, whether or not the barrier was first seen as a placeholder,
\* does not abort ingest and leaves the latest arrival on the node: for normal
\* arrivals creation_time is the maximum performed time and creator the
\* creator of that arrival; for external handshakes (fevent = result) the
\* time the node holds is the maximum performed time.
C28_LatestArrivalKept ==
    [][LatestArrivalKept("ArriveBarrier") /\ LatestArrivalKept("ExternalHandshake")]_vars

\* The normal arrivals do what C28 says.
NormalArrivalsKeepLatest == [][LatestArrivalKept("ArriveBarrier")]_vars

\* So do the handshakes of a barrier that was first seen as a placeholder.
PromotedHandshakesKeepLatest ==
    [][(/\ call'.op = "BarrierArrivalInfo"
        /\ call'.arg[1] \in DOMAIN state.event_lookup
        /\ NodeOf(state, call'.arg[1]).trigger_time # None
               \/ NodeOf(state, call'.arg[1]).kind = "UnknownEvent")
          => LatestArrivalKept("ExternalHandshake")]_vars

\* The second of two external handshakes of a barrier that was in no earlier
\* record has aborted ingest.
SecondHandshakeAborted ==
    /\ call.op = "BarrierArrivalInfo" /\ call.arg[1] = call.arg[2]
    /\ panic = "BarrierArrivalInfo: trigger_time.unwrap()"
    /\ Len(state.event_graph.nodes) = 1
    /\ state.event_graph.nodes[1].kind = "ExternalHandshake"

(***************************************************************************)
(* Trigger times of the events that do not record their own: C30           *)
(***************************************************************************)
\* compute_critical_paths is called on a graph with an edge and no cycle.
ComputingPaths ==
    /\ call'.op = "compute_critical_paths"
    /\ state.event_graph.edges # << >>
    /\ ~toposort(state.event_graph).cycle

\* The sources of the edges into the node v of the graph of st.
SourcesIn(st, v) ==
    {st.event_graph.edges[i][1] :
        i \in {j \in DOMAIN st.event_graph.edges : st.event_graph.edges[j][2] = v}}

\* No source of v is without a trigger time.
Untainted(st, v) ==
    \A src \in SourcesIn(st, v) : st.event_graph.nodes[src].trigger_time # None

\* The time of the source that decides when v triggers: the earliest trigger
\* time of a source for a completion queue event, the latest for any other.
DecidingTime(st, v) ==
    LET times == {Unwrap(st.event_graph.nodes[src].trigger_time) : src \in SourcesIn(st, v)}
    IN  IF st.event_graph.nodes[v].kind = "CompletionQueueEvent"
        THEN CHOOSE t \in times : \A u \in times : t <= u
        ELSE CHOOSE t \in times : \A u \in times : t >= u

\* The later of an event's creation time and the time of its deciding source.
PropagatedTime(st, v) ==
    IF SourcesIn(st, v) = {} THEN st.event_graph.nodes[v].creation_time
    ELSE IF st.event_graph.nodes[v].creation_time = None THEN Some(DecidingTime(st, v))
    ELSE IF Unwrap(st.event_graph.nodes[v].creation_time) < DecidingTime(st, v)
    THEN Some(DecidingTime(st, v))
    ELSE st.event_graph.nodes[v].creation_time

\* What compute_critical_paths leaves in trigger_time when it returns.
TriggerTimesPropagated ==
    \A v \in DOMAIN state.event_graph.nodes :
        IF state.event_graph.nodes[v].kind \in PropagatedKinds
        THEN Untainted(state', v) =>
                 state'.event_graph.nodes[v].trigger_time = PropagatedTime(state', v)
        ELSE state'.event_graph.nodes[v].trigger_time
                 = state.event_graph.nodes[v].trigger_time

\* The places where compute_critical_paths aborts on an event that is declared.
DeclaredEventAborts ==
    {"compute_critical_paths: assert trigger_time.is_none()",
     "compute_critical_paths: assert trigger_time.is_some()",
     "compute_critical_paths: creation_time.unwrap()"}

\* C30: whatever records made the nodes, compute_critical_paths does not abort
\* on a declared event, and when it returns every untainted node of a kind
\* that does not record its own trigger time (Merge, Trigger, Poison,
\* ArriveBarrier, InstanceReady, InstanceRedistrict, ExternalHandshake,
\* ReservationAcquire, CompletionQueueEvent) has trigger_time =
\* max(creation_time, sel.time), and every node of another kind the trigger
\* time it had.
C30_TriggerTimePropagated ==
    [][ComputingPaths =>
          /\ panic' \notin DeclaredEventAborts
          /\ panic' = "" => TriggerTimesPropagated]_vars

\* When compute_critical_paths returns, the trigger times are as C30 says.
ReturnedTriggerTimesPropagated ==
    [][(ComputingPaths /\ panic' = "") => TriggerTimesPropagated]_vars

\* compute_critical_paths has aborted on an external handshake that promoted
\* the placeholder of its barrier: the node came with a trigger time.
PromotedHandshakeAborted ==
    /\ call.op = "compute_critical_paths"
    /\ panic = "compute_critical_paths: assert trigger_time.is_none()"
    /\ \E v \in DOMAIN state.event_graph.nodes :
          /\ state.event_graph.nodes[v].kind = "ExternalHandshake"
          /\ state.event_graph.nodes[v].creation_time = None
          /\ state.event_graph.nodes[v].trigger_time # None

(***************************************************************************)
(* Placeholders in compute_critical_paths: C32                             *)
(***************************************************************************)
\* The nodes of st that are still placeholders.
UnknownNodes(st) ==
    {v \in DOMAIN st.event_graph.nodes : st.event_graph.nodes[v].kind = "UnknownEvent"}

\* C32: whatever records built the graph, a node that is still an UnknownEvent
\* when compute_critical_paths is called has no incoming edge, the pass does
\* not abort on it, and when the pass returns from its loop the node is its
\* own critical predecessor; this includes the placeholder of a barrier phase
\* whose previous phase was declared.
C32_PlaceholdersAreRoots ==
    [][call'.op = "compute_critical_paths" =>
          \A v \in UnknownNodes(state) :
              /\ SourcesIn(state, v) = {}
              /\ panic' # "compute_critical_paths: assert latest.is_none()"
              /\ (ComputingPaths /\ panic' = "") =>
                     state'.event_graph.nodes[v].critical = Some(v)]_vars

\* When compute_critical_paths returns from its loop, every placeholder is
\* its own critical predecessor.
ReturnedPlaceholdersOwnCritical ==
    [][(ComputingPaths /\ panic' = "") =>
          \A v \in UnknownNodes(state) :
              state'.event_graph.nodes[v].critical = Some(v)]_vars

\* compute_critical_paths has aborted on the placeholder of a barrier phase
\* whose previous phase had arrived.
PlaceholderAfterArrivalAborted ==
    /\ call.op = "compute_critical_paths"
    /\ panic = "compute_critical_paths: assert latest.is_none()"
    /\ \E v \in UnknownNodes(state) :
          \E src \in SourcesIn(state, v) :
              /\ state.event_graph.nodes[src].kind = "ArriveBarrier"
              /\ state.event_graph.nodes[src].creation_time # None

\* compute_critical_paths has returned from a graph where a placeholder has
\* an incoming edge from another placeholder.
ChainedPlaceholdersComputed ==
    /\ call.op = "compute_critical_paths" /\ panic = ""
    /\ \E v \in UnknownNodes(state) :
          /\ state.event_graph.nodes[v].critical = Some(v)
          /\ \E src \in SourcesIn(state, v) : src \in UnknownNodes(state)

(***************************************************************************)
(* The records of mapper, runtime and application calls: C23               *)
(***************************************************************************)
\* How many records process_records reads.
MaxCallRecords == 3

\* The call_threshold process_records is given.
CallThresholds == {0, 1, 2}

InitCalls ==
    /\ AllocIdle
    /\ panic = ""
    /\ container = [type |-> "none"]
    /\ passes = << >>
    /\ first_run = None
    /\ state = NewState
    /\ locals \in {NewLocals @@ [call_threshold |-> t] : t \in CallThresholds}
    /\ pending = 1..MaxCallRecords

ReadingCallRecords == panic = "" /\ pending # {}

\* process_record has handled the record op(arg) and left b.
CallRecordHanded(op, arg, b) ==
    /\ prof_uid_allocator' = b.alloc
    /\ state' = b.state
    /\ panic' = b.panic
    /\ call' = [op |-> op, arg |-> arg, val |-> 0]
    /\ pending' = pending \ {CHOOSE k \in pending : \A j \in pending : k <= j}
    /\ UNCHANGED <<has_prof_data, issued, fresh, parses, locals>>
    /\ UNCHANGED levelVars

MapperCallDesc ==
    /\ ReadingCallRecords
    /\ CallRecordHanded("MapperCallDesc", <<1>>, mapper_call_desc(Bundle, 1))

RuntimeCallDesc ==
    /\ ReadingCallRecords
    /\ CallRecordHanded("RuntimeCallDesc", <<1>>, runtime_call_desc(Bundle, 1))

Provenance ==
    /\ ReadingCallRecords
    /\ CallRecordHanded("Provenance", <<1>>, provenance_record(Bundle, 1))

MapperCallInfo ==
    /\ ReadingCallRecords
    /\ \E start \in CallTimes, stop \in CallTimes, op_id \in 0..1, fevent \in {None, Some(1)} :
          /\ start <= stop
          /\ CallRecordHanded("MapperCallInfo", <<start, stop>>,
                 mapper_call_info(Bundle, locals.call_threshold, 1, op_id, start, stop, 1,
                                  fevent))

RuntimeCallInfo ==
    /\ ReadingCallRecords
    /\ \E start \in CallTimes, stop \in CallTimes, fevent \in {None, Some(1)} :
          /\ start <= stop
          /\ CallRecordHanded("RuntimeCallInfo", <<start, stop>>,
                 runtime_call_info(Bundle, locals.call_threshold, 1, start, stop, 1, fevent))

ApplicationCallInfo ==
    /\ ReadingCallRecords
    /\ \E start \in CallTimes, stop \in CallTimes, fevent \in {None, Some(1)} :
          /\ start <= stop
          /\ CallRecordHanded("ApplicationCallInfo", <<start, stop>>,
                 application_call_info(Bundle, locals.call_threshold, 1, start, stop, 1,
                                       fevent))

NextCalls ==
    \/ MapperCallDesc
    \/ RuntimeCallDesc
    \/ Provenance
    \/ MapperCallInfo
    \/ RuntimeCallInfo
    \/ ApplicationCallInfo

SpecCalls == InitCalls /\ [][NextCalls]_vars

\* The records of calls.
CallInfos == {"MapperCallInfo", "RuntimeCallInfo", "ApplicationCallInfo"}

\* The entries of all processors.
ProcEntries(st) ==
    UNION {{<<p, uid>> : uid \in DOMAIN st.procs[p].entries} : p \in DOMAIN st.procs}

\* What C23 says of the call records of the kinds in infos: a record <<start,
\* stop>> that is processed makes no entry and leaves last_time when stop -
\* start < call_threshold, and else makes one entry, with the record's times,
\* and raises last_time to stop.
ThresholdApplies(infos) ==
    (call'.op \in infos /\ panic' = "") =>
        IF call'.arg[2] - call'.arg[1] < locals.call_threshold
        THEN /\ ProcEntries(state') = ProcEntries(state)
             /\ state'.last_time = state.last_time
        ELSE /\ Cardinality(ProcEntries(state') \ ProcEntries(state)) = 1
             /\ \A e \in ProcEntries(state') \ ProcEntries(state) :
                   state'.procs[e[1]].entries[e[2]].time_range
                       = new_call(call'.arg[1], call'.arg[2])
             /\ state'.last_time
                   = IF call'.arg[2] > state.last_time THEN call'.arg[2] ELSE state.last_time

\* C23: the call-duration threshold applies to all three call kinds: a
\* MapperCallInfo, RuntimeCallInfo or ApplicationCallInfo record with stop -
\* start < call_threshold creates no processor entry and does not change
\* last_time, and one with stop - start >= call_threshold is retained.
C23_ThresholdOnAllCalls == [][ThresholdApplies(CallInfos)]_vars

\* The threshold applies to mapper and runtime calls.
ThresholdOnMapperAndRuntimeCalls ==
    [][ThresholdApplies({"MapperCallInfo", "RuntimeCallInfo"})]_vars

\* An application call shorter than the threshold was given an entry.
ShortApplicationCallRetained ==
    /\ call.op = "ApplicationCallInfo" /\ panic = ""
    /\ call.arg[2] - call.arg[1] < locals.call_threshold
    /\ \E e \in ProcEntries(state) :
          /\ state.procs[e[1]].entries[e[2]].kind = "ApplicationCall"
          /\ state.last_time = call.arg[2] /\ call.arg[2] > 0

(***************************************************************************)
(* The audit of message latencies: C22                                     *)
(***************************************************************************)
\* How many records process_records reads before the audit.
MaxMessageRecords == 3

\* A processor of node 0 and one of node 1.
MessageProcs == {1, 17}

InitMessages ==
    /\ AllocIdle
    /\ panic = ""
    /\ container = [type |-> "none"]
    /\ passes = << >>
    /\ first_run = None
    /\ state = NewState
    /\ locals = NewLocals
    /\ pending = 1..MaxMessageRecords

ReadingMessageRecords == panic = "" /\ pending # {} /\ call.op # "check_message_latencies"

\* process_record has handled the record op(arg) and left b.
MessageRecordHanded(op, arg, b) ==
    /\ prof_uid_allocator' = b.alloc
    /\ state' = b.state
    /\ panic' = b.panic
    /\ call' = [op |-> op, arg |-> arg, val |-> 0]
    /\ pending' = pending \ {CHOOSE k \in pending : \A j \in pending : k <= j}
    /\ UNCHANGED <<has_prof_data, issued, fresh, parses, locals>>
    /\ UNCHANGED levelVars

\* Record::MetaDesc of the one variant, a message variant or not.
MetaDesc ==
    /\ ReadingMessageRecords
    /\ \E message \in BOOLEAN :
          MessageRecordHanded("MetaDesc", <<1, message>>, meta_desc(Bundle, 1, message))

\* Record::TaskInfo of the task 1 that creates the meta tasks.
MessageCreatorTaskInfo ==
    /\ ReadingMessageRecords
    /\ \E proc_id \in MessageProcs :
          MessageRecordHanded("TaskInfo", <<proc_id>>,
                              task_info(Bundle, 1, proc_id, 0, 0, 0, 1, 1))

\* Record::MetaInfo of a meta task made at 1.
MetaInfo ==
    /\ ReadingMessageRecords
    /\ \E proc_id \in MessageProcs, creator \in {None, Some(1)} :
          MessageRecordHanded("MetaInfo", <<proc_id, creator>>,
                              meta_info(Bundle, 2, 1, proc_id, 1, 1, 1, 2, creator, 2))

\* Record::MessageInfo of a meta task made at 1 and sent at 0 or at 3.
MessageInfo ==
    /\ ReadingMessageRecords
    /\ \E proc_id \in MessageProcs, creator \in {None, Some(1)}, spawn \in {0, 3} :
          MessageRecordHanded("MessageInfo", <<proc_id, creator, spawn>>,
              message_info(Bundle, 3, 1, proc_id, spawn, 1, 1, 1, 2, creator, 3))

\* State::check_message_latencies(threshold, warn_percentage)
CheckMessageLatencies ==
    /\ panic = "" /\ call.op # "check_message_latencies"
    /\ \E threshold \in 0..1, warn_percentage \in {0, 50} :
          \E r \in {check_message_latencies(state, threshold, warn_percentage)} :
              /\ panic' = r.panic
              /\ call' = [op |-> "check_message_latencies",
                          arg |-> <<threshold, warn_percentage>>, val |-> r]
    /\ UNCHANGED <<prof_uid_allocator, has_prof_data, issued, fresh, parses, state, locals,
                   pending>>
    /\ UNCHANGED levelVars

NextMessages ==
    \/ MetaDesc
    \/ MessageCreatorTaskInfo
    \/ MetaInfo
    \/ MessageInfo
    \/ CheckMessageLatencies

SpecMessages == InitMessages /\ [][NextMessages]_vars

\* C22: check_message_latencies, called with threshold >= 0 and 0 <=
\* warn_percentage < 100 on a state ingest produced, only prints warnings and
\* does not abort, also when a meta task of a message variant was recorded
\* without a spawn time (MetaInfo) and when the creator of a skewed message
\* ran on the node of the message.
C22_AuditNeverAborts == call.op = "check_message_latencies" => panic = ""

\* The audit aborted on a meta task of a message variant that a MetaInfo
\* record made: it has no spawn time.
MessageMetaWithoutSpawnAborted ==
    /\ call.op = "check_message_latencies"
    /\ panic = "check_for_skew: time_range.spawn.unwrap()"

\* The audit aborted on a skewed message whose creator ran on the same node.
SkewOnOneNodeAborted ==
    /\ call.op = "check_message_latencies"
    /\ panic = "check_for_skew: assert creator node != execution node"

\* The audit returned after it printed the warning of skew between two nodes.
SkewBetweenNodesReported ==
    /\ call.op = "check_message_latencies" /\ panic = ""
    /\ call.val.skew_warning /\ call.val.skew_messages = 1

\* ---------------------------------------------------------------------------
\* The per-container passes of State::sort_time_range and stack_time_points
\* ---------------------------------------------------------------------------
\* The state holds two processors, one memory and one channel.  Each pass
\* walks the processors, then the memories, then the channels, and inside one
\* walk par_iter_mut hands every closure the exclusive borrow of one
\* container, so the closures of one walk run in any order.

MaxParEntries == 2

ParProcs == {1, 2}
ParMems == {1}
ParChans == {1}

ParRanges == {<<0, 2>>, <<1, 3>>}

ParKinds == <<"Proc", "Mem", "Chan">>

ParPasses == <<"sort_time_range", "stack_time_points">>

ParKeys(kind) ==
    IF kind = "Proc" THEN ParProcs ELSE IF kind = "Mem" THEN ParMems ELSE ParChans

\* The containers of the state: (kind, key) pairs.
ParUnits == {<<kind, key>> : kind \in {"Proc"}, key \in ParProcs}
            \cup {<<kind, key>> : kind \in {"Mem"}, key \in ParMems}
            \cup {<<kind, key>> : kind \in {"Chan"}, key \in ParChans}

ContainerOf(st, unit) ==
    IF unit[1] = "Proc" THEN st.procs[unit[2]]
    ELSE IF unit[1] = "Mem" THEN st.mems[unit[2]]
    ELSE st.chans[unit[2]]

\* for_each(|(_, c)| c.sort_time_range()) on the shared state: every closure
\* of the walk has run.
par_sort_time_range_shared(st, kind, key) ==
    IF kind = "Proc"
    THEN [state |-> [st EXCEPT !.procs =
                        [k \in DOMAIN st.procs |-> proc_sort_time_range(st.procs[k]).c]],
          panic |-> proc_sort_time_range(st.procs[key]).panic]
    ELSE IF kind = "Mem"
    THEN [state |-> [st EXCEPT !.mems =
                        [k \in DOMAIN st.mems |-> mem_sort_time_range(st.mems[k]).c]],
          panic |-> mem_sort_time_range(st.mems[key]).panic]
    ELSE [state |-> [st EXCEPT !.chans =
                        [k \in DOMAIN st.chans |-> chan_sort_time_range(st.chans[k]).c]],
          panic |-> chan_sort_time_range(st.chans[key]).panic]

\* State::sort_time_range: one closure of a walk, on the container it borrows.
par_sort_time_range(st, kind, key) ==
    IF kind = "Proc"
    THEN [state |-> [st EXCEPT !.procs[key] = proc_sort_time_range(@).c],
          panic |-> proc_sort_time_range(st.procs[key]).panic]
    ELSE IF kind = "Mem"
    THEN [state |-> [st EXCEPT !.mems[key] = mem_sort_time_range(@).c],
          panic |-> mem_sort_time_range(st.mems[key]).panic]
    ELSE [state |-> [st EXCEPT !.chans[key] = chan_sort_time_range(@).c],
          panic |-> chan_sort_time_range(st.chans[key]).panic]

\* State::stack_time_points: one closure of a walk, on the container it borrows.
par_stack_time_points(st, kind, key) ==
    IF kind = "Proc" THEN [st EXCEPT !.procs[key] = proc_stack_time_points(@)]
    ELSE IF kind = "Mem" THEN [st EXCEPT !.mems[key] = mem_stack_time_points(@)]
    ELSE [st EXCEPT !.chans[key] = chan_stack_time_points(@)]

InitParallel ==
    /\ AllocIdle
    /\ panic = ""
    /\ container = [type |-> "State", c |-> None]
    /\ passes = << >>
    /\ first_run = None
    /\ state = [NewState EXCEPT
                  !.procs = [p \in ParProcs |-> NewProc(Some("CPU"))],
                  !.mems = [m \in ParMems |-> NewMem("System", 0)],
                  !.chans = [c \in ParChans |-> NewChan]]
    /\ locals = NewLocals
    /\ pending = {}

\* The closures that have run: (pass, kind, key) in the order they finished.
ParDone(pass) == {<<passes[i][2], passes[i][3]>> :
                     i \in {j \in 1..Len(passes) : passes[j][1] = pass}}

\* A walk starts when the walks before it have joined.
WalkOpen(pass, kind) ==
    /\ pass = "stack_time_points" => ParDone("sort_time_range") = ParUnits
    /\ \A u \in ParUnits :
          (\/ u[1] = "Proc" /\ kind # "Proc"
           \/ u[1] = "Mem" /\ kind = "Chan") => u \in ParDone(pass)

\* State::create_task on one of the processors.
ParCreateTask ==
    /\ Filling
    /\ \E p \in ParProcs, r \in ParRanges :
          /\ Cardinality(DOMAIN state.procs[p].entries) < MaxParEntries
          /\ \E uid \in {10 * p + Cardinality(DOMAIN state.procs[p].entries) + 1} :
                state' = [state EXCEPT !.procs[p] =
                    create_proc_entry(@, uid,
                        NewProcEntry(Some(uid), None, "Task",
                                     new_full(r[1], r[1], r[1], r[2]), None))]
    /\ UNCHANGED <<prof_uid_allocator, has_prof_data, panic, call, issued, fresh, parses>>
    /\ UNCHANGED <<levelVars, locals, pending>>

\* Mem::add_inst on the memory.
ParAddInst ==
    /\ Filling
    /\ \E m \in ParMems, r \in ParRanges :
          /\ DOMAIN state.mems[m].insts = {}
          /\ state' = [state EXCEPT !.mems[m] =
                 add_inst(@, 30 + m, NewInst(r[1], r[1], r[2], 1))]
    /\ UNCHANGED <<prof_uid_allocator, has_prof_data, panic, call, issued, fresh, parses>>
    /\ UNCHANGED <<levelVars, locals, pending>>

\* Chan::add_copy on the channel.
ParAddCopy ==
    /\ Filling
    /\ \E c \in ParChans, r \in ParRanges :
          /\ DOMAIN state.chans[c].entries = {}
          /\ state' = [state EXCEPT !.chans[c] =
                 add_chan_entry(@, 40 + c,
                     NewChanEntry("Copy", new_full(r[1], r[1], r[1], r[2])))]
    /\ UNCHANGED <<prof_uid_allocator, has_prof_data, panic, call, issued, fresh, parses>>
    /\ UNCHANGED <<levelVars, locals, pending>>

\* One closure of State::sort_time_range.
ParSortTimeRange ==
    /\ panic = ""
    /\ \E u \in ParUnits \ ParDone("sort_time_range") :
          /\ WalkOpen("sort_time_range", u[1])
          /\ \E r \in {par_sort_time_range(state, u[1], u[2])} :
                /\ state' = r.state
                /\ panic' = r.panic
          /\ passes' = Append(passes, <<"sort_time_range", u[1], u[2]>>)
    /\ first_run' = IF first_run = None THEN Some(state) ELSE first_run
    /\ UNCHANGED <<prof_uid_allocator, has_prof_data, call, issued, fresh, parses>>
    /\ UNCHANGED <<container, locals, pending>>

\* One closure of State::stack_time_points.
ParStackTimePoints ==
    /\ panic = ""
    /\ \E u \in ParUnits \ ParDone("stack_time_points") :
          /\ WalkOpen("stack_time_points", u[1])
          /\ state' = par_stack_time_points(state, u[1], u[2])
          /\ passes' = Append(passes, <<"stack_time_points", u[1], u[2]>>)
    /\ UNCHANGED <<prof_uid_allocator, has_prof_data, panic, call, issued, fresh, parses>>
    /\ UNCHANGED <<container, first_run, locals, pending>>

NextParallel ==
    \/ ParCreateTask
    \/ ParAddInst
    \/ ParAddCopy
    \/ ParSortTimeRange
    \/ ParStackTimePoints

SpecParallel == InitParallel /\ [][NextParallel]_vars

\* The container processed alone: its own sort_time_range, then its own
\* stack_time_points, as far as its closures have run.
SortedAlone(unit, c) ==
    IF unit[1] = "Proc" THEN proc_sort_time_range(c).c
    ELSE IF unit[1] = "Mem" THEN mem_sort_time_range(c).c
    ELSE chan_sort_time_range(c).c

StackedAlone(unit, c) ==
    IF unit[1] = "Proc" THEN proc_stack_time_points(c)
    ELSE IF unit[1] = "Mem" THEN mem_stack_time_points(c)
    ELSE chan_stack_time_points(c)

ProcessedAlone(unit, c) ==
    IF unit \in ParDone("stack_time_points") THEN StackedAlone(unit, SortedAlone(unit, c))
    ELSE IF unit \in ParDone("sort_time_range") THEN SortedAlone(unit, c)
    ELSE c

MaxProfTasks == 2

\* The records of the log in the order they are read; any of them but the
\* first may be missing from the log.
ProfOrder ==
    <<"MemDesc", "TaskInfo", "SpawnInfo", "InstTimelineInfo", "CopyInfo", "CopyInstInfo",
      "FillInfo", "FillInstInfo", "ProfTaskInfo">>

\* The fevents of the task, the instance, the copy and the fill.
Profiled == [task |-> 1, inst |-> 2, copy |-> 3, fill |-> 4]

ProfiledFevents == {Profiled.task, Profiled.inst, Profiled.copy, Profiled.fill}

\* The fevent of the k-th profiling response.
ProfFevent(k) == 10 + k

InitProfTasks ==
    /\ AllocIdle
    /\ panic = ""
    /\ container = [type |-> "none"]
    /\ passes = << >>
    /\ first_run = None
    /\ state = NewState
    /\ locals = NewLocals
    /\ pending = {ProfOrder[i] : i \in DOMAIN ProfOrder}

\* The record is the next one of the log.
ReadingProfRecord(record) ==
    /\ panic = "" /\ ~has_prof_data /\ record \in pending
    /\ record = "MemDesc" \/ "MemDesc" \notin pending

\* The records that come after the record in the log.
LeftAfter(record) ==
    {ProfOrder[j] : j \in {k \in DOMAIN ProfOrder :
                              \E i \in 1..(k - 1) : ProfOrder[i] = record}} \cap pending

\* process_record has handled the record and left b, the copies and the fills.
ProfRecordHanded(b, copies, fills) ==
    /\ prof_uid_allocator' = b.alloc
    /\ state' = b.state
    /\ locals' = [insts |-> b.insts, profs |-> b.profs, copies |-> copies, fills |-> fills]
    /\ panic' = b.panic
    /\ UNCHANGED <<has_prof_data, call, issued, fresh, parses>>
    /\ UNCHANGED levelVars

ProfMemDesc ==
    /\ ReadingProfRecord("MemDesc")
    /\ ProfRecordHanded(mem_desc(Bundle, 1, "System", 0), locals.copies, locals.fills)
    /\ pending' = LeftAfter("MemDesc")

ProfiledTaskInfo ==
    /\ ReadingProfRecord("TaskInfo")
    /\ \E stop \in {3, 4} :
          ProfRecordHanded(task_info(Bundle, 1, 1, 1, 2, 2, stop, Profiled.task),
                           locals.copies, locals.fills)
    /\ pending' = LeftAfter("TaskInfo")

ProfiledSpawnInfo ==
    /\ ReadingProfRecord("SpawnInfo")
    /\ ProfRecordHanded(spawn_info(Bundle, Profiled.task, 0), locals.copies, locals.fills)
    /\ pending' = LeftAfter("SpawnInfo")

ProfiledInstTimelineInfo ==
    /\ ReadingProfRecord("InstTimelineInfo")
    /\ \E ready \in {2, 3} :
          ProfRecordHanded(inst_timeline_info(Bundle, Profiled.inst, 1, 1, 1, ready, 5,
                                              Profiled.task),
                           locals.copies, locals.fills)
    /\ pending' = LeftAfter("InstTimelineInfo")

ProfiledCopyInfo ==
    /\ ReadingProfRecord("CopyInfo")
    /\ \E r \in {copy_info(Bundle, locals.copies, 1, 0, 1, 2, 4, Profiled.copy)} :
          ProfRecordHanded(r.b, r.copies, locals.fills)
    /\ pending' = LeftAfter("CopyInfo")

ProfiledCopyInstInfo ==
    /\ ReadingProfRecord("CopyInstInfo")
    /\ \E r \in {copy_inst_info(Bundle, locals.copies, 1, 1, Profiled.copy, FALSE)} :
          ProfRecordHanded(r.b, r.copies, locals.fills)
    /\ pending' = LeftAfter("CopyInstInfo")

ProfiledFillInfo ==
    /\ ReadingProfRecord("FillInfo")
    /\ \E r \in {fill_info(Bundle, locals.fills, 1, 2, 2, 3, 5, Profiled.fill)} :
          ProfRecordHanded(r.b, locals.copies, r.fills)
    /\ pending' = LeftAfter("FillInfo")

ProfiledFillInstInfo ==
    /\ ReadingProfRecord("FillInstInfo")
    /\ \E r \in {fill_inst_info(Bundle, locals.fills, 1, Profiled.inst, Profiled.fill)} :
          ProfRecordHanded(r.b, locals.copies, r.fills)
    /\ pending' = LeftAfter("FillInstInfo")

\* Record::ProfTaskInfo: the response for one of the four, on completion or
\* (completion unset) on allocation.
ProfiledProfTaskInfo ==
    /\ ReadingProfRecord("ProfTaskInfo")
    /\ Cardinality(DOMAIN locals.profs) < MaxProfTasks
    /\ \E creator \in ProfiledFevents, completion \in BOOLEAN :
          ProfRecordHanded(
              prof_task_info(Bundle, 1, 1, 6, 7, creator,
                             ProfFevent(Cardinality(DOMAIN locals.profs) + 1), completion),
              locals.copies, locals.fills)
    /\ pending' = pending

\* The rest of process_records, once the loop over the records is through.
\* (locals is dropped when process_records returns; it stays readable here
\* so that a property can name the drafts and the responses.)
FinishProfTasks ==
    /\ panic = "" /\ ~has_prof_data
    /\ \E b \in {finish_records_and_copies(Bundle, locals.fills, locals.copies)} :
          /\ prof_uid_allocator' = b.alloc
          /\ state' = b.state
          /\ panic' = b.panic
          /\ has_prof_data' = (b.panic = "")
    /\ UNCHANGED <<locals, pending, call, issued, fresh, parses>>
    /\ UNCHANGED levelVars

NextProfTasks ==
    \/ ProfMemDesc
    \/ ProfiledTaskInfo
    \/ ProfiledSpawnInfo
    \/ ProfiledInstTimelineInfo
    \/ ProfiledCopyInfo
    \/ ProfiledCopyInstInfo
    \/ ProfiledFillInfo
    \/ ProfiledFillInstInfo
    \/ ProfiledProfTaskInfo
    \/ FinishProfTasks

SpecProfTasks == InitProfTasks /\ [][NextProfTasks]_vars

(***************************************************************************)
(* The times and the creator of a profiling response: C35                  *)
(***************************************************************************)
\* The ProcEntry of the profiling response prof_uid in st.
ProfEntry(st, prof_uid) == st.procs[st.prof_uid_proc[prof_uid]].entries[prof_uid]

\* What the response prof_uid for (creator, creator_uid, completion) holds in
\* st: the creator, the create time and the ready time given.
ResolvedAs(st, prof_uid, creator, create, ready) ==
    /\ ProfEntry(st, prof_uid).creator = creator
    /\ ProfEntry(st, prof_uid).time_range.create = create
    /\ ProfEntry(st, prof_uid).time_range.ready = ready

\* The response prof_uid holds the times and the creator of what it profiles.
ResolvedFromProfiled(st, prof_uid) ==
    LET creator == locals.profs[prof_uid][1]
        creator_uid == locals.profs[prof_uid][2]
        completion == locals.profs[prof_uid][3]
    IN  IF creator_uid \in DOMAIN st.prof_uid_proc
        THEN LET task == ProfEntry(st, creator_uid)
             IN  /\ completion
                 /\ ResolvedAs(st, prof_uid, task.creator,
                               IF task.time_range.spawn # None THEN task.time_range.spawn
                               ELSE task.time_range.create,
                               task.time_range.stop)
        ELSE IF creator_uid \in DOMAIN st.prof_uid_chan
        THEN LET entry == st.chans[st.prof_uid_chan[creator_uid]].entries[creator_uid]
             IN  /\ completion
                 /\ ResolvedAs(st, prof_uid, entry.creator, entry.time_range.create,
                               entry.time_range.stop)
        ELSE IF creator_uid \in DOMAIN st.insts
        THEN LET inst == st.mems[st.insts[creator_uid]].insts[creator_uid]
             IN  ResolvedAs(st, prof_uid, inst.creator, inst.time_range.create,
                            IF completion THEN inst.time_range.stop
                            ELSE inst.time_range.ready)
        ELSE /\ creator \in DOMAIN locals.copies
             /\ ResolvedAs(st, prof_uid, locals.copies[creator].creator,
                           locals.copies[creator].time_range.create,
                           locals.copies[creator].time_range.stop)

\* C35: after process_records every ProfTask entry has create equal to the
\* creation time of what it profiles, ready equal to its stop time when
\* completion is set (for an instance with completion unset: the instance's
\* ready time), and as creator the creator of what it profiles; a copy that
\* is only a draft gives the draft's create and stop; and process_records
\* does not return with a response with completion unset for a task or a
\* channel entry.
C35_ProfTaskTimesResolved ==
    Returned => \A prof_uid \in DOMAIN locals.profs : ResolvedFromProfiled(state, prof_uid)

\* process_records has returned with the allocation response of the
\* instance, whose creator is now the task that made the instance, and the
\* completion response of the copy, which has gone to its channel since.
C35_Witness ==
    /\ Returned
    /\ \E p, q \in DOMAIN locals.profs :
          /\ locals.profs[p][1] = Profiled.inst /\ ~locals.profs[p][3]
          /\ ProfEntry(state, p).creator \notin {None, Some(locals.profs[p][2])}
          /\ ProfEntry(state, p).time_range.create = Some(1)
          /\ ProfEntry(state, p).time_range.ready \in {Some(2), Some(3)}
          /\ locals.profs[q][1] = Profiled.copy /\ locals.profs[q][3]
          /\ ProfEntry(state, q).time_range.create = Some(0)
          /\ ProfEntry(state, q).time_range.ready = Some(4)
          /\ \E c \in DOMAIN state.chans : c[1] = "Copy"

\* process_records has returned with the completion responses of a spawned
\* task and of a fill that is on its channel.
TaskAndFillProfiled ==
    /\ Returned
    /\ \E p, q \in DOMAIN locals.profs :
          /\ locals.profs[p][1] = Profiled.task
          /\ ProfEntry(state, p).time_range.create = Some(0)
          /\ ProfEntry(state, p).time_range.ready \in {Some(3), Some(4)}
          /\ locals.profs[q][1] = Profiled.fill
          /\ locals.profs[q][2] \in DOMAIN state.prof_uid_chan
          /\ ProfEntry(state, q).time_range.create = Some(2)
          /\ ProfEntry(state, q).time_range.ready = Some(5)

\* process_records has aborted on the response of a fill that no
\* FillInstInfo put on a channel.
UnplacedFillProfiled ==
    /\ panic = "find_prof_task_times: unreachable"
    /\ \E p \in DOMAIN locals.profs : locals.profs[p][1] = Profiled.fill


(***************************************************************************)
(* SpecEventWaits: one task makes calls and waits on events several times, *)
(* also twice on one event, and the processor is sorted.                   *)
(***************************************************************************)
MaxTaskWaits == 2

\* The [start, stop] of the calls and the [start, end] of the waits.
WaitCallRanges == {<<0, 2>>, <<0, 1>>, <<1, 2>>}

WaitRanges == {<<0, 0>>, <<0, 1>>, <<1, 2>>, <<0, 2>>}

WaitEvents == {1, 2}

\* State::create_runtime_call: a call made by the task.
WaitingCreateRuntimeCall ==
    /\ Filling
    /\ NumEntries < 1 + MaxCalls
    /\ \E range \in WaitCallRanges :
          container' = [container EXCEPT !.c =
              create_proc_entry(@, NextUID,
                  NewProcEntry(None, None, "RuntimeCall", new_call(range[1], range[2]),
                               Some(TaskUID)))]
    /\ UNCHANGED <<prof_uid_allocator, has_prof_data, panic, call, issued, fresh, parses,
                   passes, first_run>>
    /\ UNCHANGED ingestVars

\* Waiters::add_wait_interval (Record::TaskWaitInfo): the task waits on an event.
WaitingAddWaitInterval ==
    /\ Filling
    /\ Len(container.c.entries[TaskUID].waiters) < MaxTaskWaits
    /\ \E range \in WaitRanges, event \in WaitEvents :
          container' = [container EXCEPT !.c.entries[TaskUID].waiters =
              Append(@, from_event(range[1], range[1], range[2], event, None))]
    /\ UNCHANGED <<prof_uid_allocator, has_prof_data, panic, call, issued, fresh, parses,
                   passes, first_run>>
    /\ UNCHANGED ingestVars

NextEventWaits ==
    \/ WaitingCreateRuntimeCall
    \/ WaitingAddWaitInterval
    \/ ProcSortTimeRange

SpecEventWaits == InitReconcile /\ [][NextEventWaits]_vars

(***************************************************************************)
(* Event-waits through reconciliation: C38                                 *)
(***************************************************************************)
\* An event-wait as (start, ready, end, event).
EventWaitOf(wait) == <<wait.start, wait.ready, wait.end, Unwrap(wait.event)>>

\* The places (entry, index in its waiter list) that hold the event-wait w.
EventWaitSlots(proc, w) ==
    {slot \in UNION {{<<u, i>> : i \in DOMAIN proc.entries[u].waiters} :
                        u \in DOMAIN proc.entries} :
        LET wait == proc.entries[slot[1]].waiters[slot[2]]
        IN  wait.event # None /\ wait.callee = None /\ EventWaitOf(wait) = w}

\* The event-waits held by the task and by its calls.
EventWaitsHeld(proc) ==
    {EventWaitOf(proc.entries[u].waiters[i]) :
        <<u, i>> \in {slot \in UNION {{<<v, j>> : j \in DOMAIN proc.entries[v].waiters} :
                                        v \in DOMAIN proc.entries} :
                        proc.entries[slot[1]].waiters[slot[2]].event # None}}

\* C38: sort_calls_and_waits neither loses nor duplicates event-waits: each
\* event-wait (start, ready, end, event) is held as many times by the task and
\* its calls after the sort as before it, a wait that was recorded once ends in
\* exactly one waiter list.
C38_EventWaitsPreserved ==
    [][Reconciling =>
         \A w \in EventWaitsHeld(container.c) \cup EventWaitsHeld(container'.c) :
             Cardinality(EventWaitSlots(container'.c, w))
                 = Cardinality(EventWaitSlots(container.c, w))]_vars

\* The processor was sorted: one wait of the task moved into a call, another
\* stayed on the task beside the caller wait of that call.
C38_Witness ==
    /\ passes = <<"sort_time_range">> /\ panic = ""
    /\ \E u \in DOMAIN container.c.entries \ {TaskUID} :
          \E i \in DOMAIN container.c.entries[u].waiters :
              container.c.entries[u].waiters[i].event # None
    /\ \E i, j \in DOMAIN container.c.entries[TaskUID].waiters :
          /\ container.c.entries[TaskUID].waiters[i].event # None
          /\ container.c.entries[TaskUID].waiters[j].callee # None

\* The task waited twice on one event over the same interval and both waits
\* moved into one call, which holds the event-wait twice.
SameWaitMovedTwice ==
    /\ passes = <<"sort_time_range">> /\ panic = ""
    /\ \E u \in DOMAIN container.c.entries \ {TaskUID} :
          \E w \in EventWaitsHeld(container.c) :
              /\ Cardinality(EventWaitSlots(container.c, w)) = 2
              /\ \A slot \in EventWaitSlots(container.c, w) : slot[1] = u

\* A wait that partly overlaps a call stops the sort.
PartlyOverlappingWaitAborted ==
    /\ passes = <<"sort_time_range">>
    /\ panic # ""
    /\ Len(container.c.entries[TaskUID].waiters) >= 1


(***************************************************************************)
(* SpecTrimWaits: process_records is handed a task on [0, 2], a call the   *)
(* task makes and a wait of the task, both within the task; then the       *)
(* state is trimmed and its one processor is sorted.                       *)
(***************************************************************************)
TrimRecords == {"ProcDesc", "TaskInfo", "RuntimeCallDesc", "RuntimeCallInfo", "TaskWaitInfo"}

\* The [start, stop] of the call and the [start, end] of the wait.
TrimCallRanges == {<<0, 2>>, <<0, 1>>, <<1, 2>>}

TrimWaitRanges == {<<0, 2>>, <<0, 1>>, <<1, 2>>, <<1, 1>>}

InitTrimWaits ==
    /\ AllocIdle
    /\ panic = ""
    /\ container = [type |-> "none"]
    /\ passes = << >>
    /\ first_run = None
    /\ state = NewState
    /\ locals = NewLocals
    /\ pending = TrimRecords

TrimmedProcDesc ==
    /\ Reading("ProcDesc")
    /\ Handed("ProcDesc", proc_desc(Bundle, 1, "CPU"))

TrimmedTaskInfo ==
    /\ Reading("TaskInfo")
    /\ Handed("TaskInfo", task_info(Bundle, 1, 1, 0, 0, 0, 2, 1))

TrimmedRuntimeCallDesc ==
    /\ Reading("RuntimeCallDesc")
    /\ Handed("RuntimeCallDesc", runtime_call_desc(Bundle, 1))

TrimmedRuntimeCallInfo ==
    /\ Reading("RuntimeCallInfo")
    /\ \E range \in TrimCallRanges :
          Handed("RuntimeCallInfo",
                 runtime_call_info(Bundle, 0, 1, range[1], range[2], 1, Some(1)))

TrimmedTaskWaitInfo ==
    /\ Reading("TaskWaitInfo")
    /\ \E range \in TrimWaitRanges :
          Handed("TaskWaitInfo",
                 task_wait_info(Bundle, 1, range[1], range[1], range[2], 1))

\* State::sort_time_range, called after trim_time_range: the state holds one
\* processor, no memory and no channel.
TrimmedSortTimeRange ==
    /\ panic = "" /\ has_prof_data
    /\ passes = << >>
    /\ 1 \in DOMAIN state.procs
    /\ \E r \in {par_sort_time_range(state, "Proc", 1)} :
          /\ state' = r.state
          /\ panic' = r.panic
    /\ passes' = <<"sort_time_range">>
    /\ UNCHANGED <<prof_uid_allocator, has_prof_data, call, issued, fresh, parses,
                   container, first_run, locals, pending>>

NextTrimWaits ==
    \/ TrimmedProcDesc
    \/ TrimmedTaskInfo
    \/ TrimmedRuntimeCallDesc
    \/ TrimmedRuntimeCallInfo
    \/ TrimmedTaskWaitInfo
    \/ FinishRecords
    \/ TrimTimeRange
    \/ TrimmedSortTimeRange

SpecTrimWaits == InitTrimWaits /\ [][NextTrimWaits]_vars

(***************************************************************************)
(* Wait intervals through trim_time_range: C40                             *)
(***************************************************************************)
\* A step of trim_time_range(a, b) with a or b given, before the sort.
Trimming ==
    /\ call.op = "none" /\ call'.op = "trim_time_range" /\ call'.arg # <<None, None>>
    /\ panic' = "" /\ passes = << >>

\* The wait interval lies within [start, stop] of the entry.
WaitWithin(wait, entry) ==
    Unwrap(entry.time_range.start) <= wait.start /\ wait.end <= Unwrap(entry.time_range.stop)

\* sort_time_range would run to its end on the processor.
SortsThrough(st) == \A p \in DOMAIN st.procs : proc_sort_time_range(st.procs[p]).panic = ""

\* C40: trim_time_range rebases the wait intervals of the retained processor
\* entries together with their time ranges: a wait that lay within its
\* entry's [start, stop] before the trim lies within it afterwards, and a
\* sort_time_range that would have run to its end before the trim runs to
\* its end after it.
C40_TrimRebasesWaits ==
    [][Trimming =>
         /\ \A p \in DOMAIN state.procs :
               \A u \in DOMAIN state'.procs[p].entries :
                  \A i \in DOMAIN state.procs[p].entries[u].waiters :
                     WaitWithin(state.procs[p].entries[u].waiters[i],
                                state.procs[p].entries[u])
                         => WaitWithin(state'.procs[p].entries[u].waiters[i],
                                       state'.procs[p].entries[u])
         /\ SortsThrough(state) => SortsThrough(state')]_vars

\* trim_time_range(Some(1), None) has returned: the task is on [0, 1] and its
\* wait still on [0, 2].
TrimmedWaitOutsideEntry ==
    /\ Trimmed /\ passes = << >>
    /\ 1 \in DOMAIN state.procs
    /\ \E u \in DOMAIN state.procs[1].entries :
          \E i \in DOMAIN state.procs[1].entries[u].waiters :
              /\ state.procs[1].entries[u].time_range.stop = Some(1)
              /\ state.procs[1].entries[u].waiters[i].end = 2

\* The sort after the trim stopped at a wait that partly overlaps a call.
SortAfterTrimAborted ==
    /\ call.op = "trim_time_range"
    /\ passes = <<"sort_time_range">>
    /\ panic = "sort_calls_and_waits: wait partially overlaps a call"

\* The log of a task, a call and a wait that all span [0, 2], trimmed with
\* trim_time_range(Some(1), None): the sort stops at the wait.
WholeSpanTrimAborted ==
    /\ call.op = "trim_time_range" /\ call.arg = <<Some(1), None>>
    /\ passes = <<"sort_time_range">>
    /\ panic = "sort_calls_and_waits: wait partially overlaps a call"
    /\ \A u \in DOMAIN state.procs[1].entries :
          state.procs[1].entries[u].time_range.stop = Some(1)
    /\ \E u \in DOMAIN state.procs[1].entries :
          \E i \in DOMAIN state.procs[1].entries[u].waiters :
              /\ state.procs[1].entries[u].waiters[i].start = 0
              /\ state.procs[1].entries[u].waiters[i].end = 2

\* Without a trim the same log is sorted to the end.
SortWithoutTrimRan ==
    /\ call.op = "none"
    /\ passes = <<"sort_time_range">> /\ panic = ""
    /\ 1 \in DOMAIN state.procs
    /\ \E u \in DOMAIN state.procs[1].entries :
          \E i \in DOMAIN state.procs[1].entries[u].waiters :
              /\ state.procs[1].entries[u].kind = "RuntimeCall"
              /\ state.procs[1].entries[u].waiters[i].event # None

====
